---- MODULE Spec2Model ----
(***************************************************************************)
(* A model of the Kong demo generator's configuration engine:              *)
(*   - ConfigurationManager (src/config_manager.py): the in-memory         *)
(*     configuration, its mutation operations, validate(), the persisted   *)
(*     formats and the declarative export;                                 *)
(*   - KongAdminClient.deploy_configuration (src/kong_admin.py): the       *)
(*     replay of a configuration against the remote admin interface;       *)
(*   - ApiSpecificationGenerator (src/api_specification_generator.py):     *)
(*     the extraction of a specification from the text provider's answer;  *)
(*   - KongConfigFromSpecGenerator                                         *)
(*     (src/kong_config_from_spec_generator.py): the transform of a        *)
(*     specification and a feature list into configuration entries;        *)
(*   - main() (src/main.py): the top-level command.                        *)
(*                                                                         *)
(* Representation.  A Python str is a sequence of tokens (one-character    *)
(* strings, plus a few multi-character tokens that normalisation leaves    *)
(* alone, such as "http://").  A falsy optional argument (None or "") is   *)
(* the empty sequence.  A Python dict is a function from its keys, so a    *)
(* missing key is a key outside DOMAIN.  op, args, ret, err and streak     *)
(* record what the last operation was and how it ended; calls, lastStatus  *)
(* and failAt record what the remote interface has observed.               *)
(***************************************************************************)
EXTENDS Integers, Sequences, FiniteSets, TLC

VARIABLES
    config,      \* ConfigurationManager.config
    keys,        \* the top-level keys of ConfigurationManager.config in insertion order
    op,          \* the operation that produced this state
    args,        \* the arguments of the last add_service / add_route / load_from_file call
    ret,         \* what the last add_service / add_route / to_declarative_config returned
    err,         \* the exception the last operation raised, "none" if it returned
    streak,      \* validate() runs since the model was last mutated by add_*, capped at 2
    pc,          \* deploy_configuration: "idle", "running", "done", "raised"
    phase,       \* deploy_configuration: the loop the next remote call belongs to
    idx,         \* deploy_configuration: 1-based index in that loop's list
    calls,       \* the requests the remote interface has observed, in order
    results,     \* deploy_configuration's local `results`
    lastStatus,  \* status code of the response to the last request
    failAt,      \* position in calls of the first request answered with a non-2xx status, 0 if none
    derr,        \* the exception deploy_configuration raised, NoError if none
    business_type,  \* generate_api_specification: its business_type argument
    features,       \* the feature list given to generate_api_specification / generate_kong_config
    provider,       \* the text provider: "absent" (no client), "throws" or "returns"
    response,       \* the text the provider returns
    specification,  \* the specification: generate_api_specification's result, the transform's input
    stage,          \* the stage of the extraction that produced the specification
    mpc,            \* main(): its position
    exit_status,    \* main(): the exit status it returned, -1 while it has not returned
    project_name,   \* deploy_to_kong: its project_name argument
    written,        \* the kong-config.json file of the project in the output directory
    run             \* the interactive call in progress and the wait it stands at

vars == <<config, keys, op, args, ret, err, streak, pc, phase, idx, calls, results, lastStatus,
          failAt, derr, business_type, features, provider, response, specification, stage,
          mpc, exit_status, project_name, written, run>>
cfgVars == <<config, keys, op, args, ret, err, streak>>
depVars == <<pc, phase, idx, calls, results, lastStatus, failAt, derr>>
genVars == <<business_type, features, provider, response, specification, stage>>
mainVars == <<mpc, exit_status, project_name, written, run>>

----------------------------------------------------------------------------
(* Bounds of the model. *)

MaxEntities == 2      \* services + routes + plugins + consumers built by add_* calls
MaxDocServices == 2   \* length of the services list of a loaded document
MaxDocRoutes == 1     \* length of the routes list of a loaded document

(* random.randint(1000, 9999) *)
RandLo == 1000
RandHi == 9999
RandDraws == {RandLo, RandHi}

----------------------------------------------------------------------------
(* Strings. *)

Upper == {"A", "B"}
Lower(c) == IF c = "A" THEN "a" ELSE IF c = "B" THEN "b" ELSE c

(* name.replace('-', '_').lower() *)
NormChar(c) == IF c = "-" THEN "_" ELSE IF c \in Upper THEN Lower(c) ELSE c

(* A faulty variant of Normalize: the .lower() is left out. *)
NormalizeNoLower(s) == [i \in 1..Len(s) |-> IF s[i] = "-" THEN "_" ELSE s[i]]

Normalize(s) == [i \in 1..Len(s) |-> NormChar(s[i])]

(* f"default_service_{random.randint(1000, 9999)}" *)
DefaultName(r) == <<"default_service_", ToString(r)>>

(* f"http://{name}:8080" *)
DefaultUrl(name) == <<"http://">> \o name \o <<":8080">>

(* f"{service_name}-route-{route_index}" *)
RouteName(service_name, n) == service_name \o <<"-", "route", "-", ToString(n)>>

SeqsUpTo(S, n) == UNION {[1..k -> S] : k \in 0..n}

----------------------------------------------------------------------------
(* ConfigurationManager *)

EmptyConfig ==
    [services |-> <<>>, routes |-> <<>>, plugins |-> <<>>, consumers |-> <<>>]

AuthPlugins == {"key-auth", "jwt", "oauth2", "basic-auth"}

(* A faulty variant of AddService: the normalised name is returned but the *)
(* name as given is stored.                                                *)
AddServiceRawName(cfg, name, url, r) ==
    LET n1 == IF name = <<>> THEN DefaultName(r) ELSE name
        n2 == Normalize(n1)
        svc == [name |-> n1, url |-> IF url = <<>> THEN DefaultUrl(n2) ELSE url]
    IN  [cfg |-> [cfg EXCEPT !["services"] = Append(@, svc)], ret |-> n2]

AddService(cfg, name, url, r) ==
    LET n1 == IF name = <<>> THEN DefaultName(r) ELSE name
        n2 == Normalize(n1)
        svc == [name |-> n2, url |-> IF url = <<>> THEN DefaultUrl(n2) ELSE url]
    IN  [cfg |-> [cfg EXCEPT !["services"] = Append(@, svc)], ret |-> n2]

(* A faulty variant of AddRoute: the index of a synthesized name counts    *)
(* every route, whatever service it is bound to.                           *)
AddRouteCountAll(cfg, service_name, paths, name, r) ==
    LET s1 == IF service_name = <<>>
              THEN IF cfg["services"] /= <<>>
                   THEN cfg["services"][1]["name"]
                   ELSE DefaultName(r)
              ELSE service_name
        s2 == Normalize(s1)
        n == IF name = <<>> THEN RouteName(s2, Len(cfg["routes"]) + 1) ELSE name
        route == [service_name |-> s2, paths |-> paths, name |-> n]
    IN  [cfg |-> [cfg EXCEPT !["routes"] = Append(@, route)], ret |-> n]

AddRoute(cfg, service_name, paths, name, r) ==
    LET s1 == IF service_name = <<>>
              THEN IF cfg["services"] /= <<>>
                   THEN cfg["services"][1]["name"]
                   ELSE DefaultName(r)
              ELSE service_name
        s2 == Normalize(s1)
        bound == {i \in 1..Len(cfg["routes"]) : cfg["routes"][i]["service_name"] = s2}
        n == IF name = <<>> THEN RouteName(s2, Cardinality(bound) + 1) ELSE name
        route == [service_name |-> s2, paths |-> paths, name |-> n]
    IN  [cfg |-> [cfg EXCEPT !["routes"] = Append(@, route)], ret |-> n]


EmptyDict == <<>>

(* A faulty variant of AddPlugin: every plugin added is cached as the auth *)
(* plugin, whatever its name.                                              *)
AddPluginCacheAll(cfg, name, pconfig) ==
    LET plugin == IF pconfig /= EmptyDict
                  THEN [name |-> name, config |-> pconfig]
                  ELSE [name |-> name]
        c1 == [cfg EXCEPT !["plugins"] = Append(@, plugin)]
    IN  [k \in DOMAIN c1 \cup {"auth_plugin"} |->
            IF k = "auth_plugin" THEN plugin ELSE c1[k]]

AddPlugin(cfg, name, pconfig) ==
    LET plugin == IF pconfig /= EmptyDict
                  THEN [name |-> name, config |-> pconfig]
                  ELSE [name |-> name]
        c1 == [cfg EXCEPT !["plugins"] = Append(@, plugin)]
    IN  IF name \in AuthPlugins
        THEN [k \in DOMAIN c1 \cup {"auth_plugin"} |->
                 IF k = "auth_plugin" THEN plugin ELSE c1[k]]
        ELSE c1

AddConsumer(cfg, username, auth_type) ==
    LET consumer == IF auth_type /= ""
                    THEN [username |-> username, auth_type |-> auth_type]
                    ELSE [username |-> username]
    IN  [cfg EXCEPT !["consumers"] = Append(@, consumer)]

(* validate(), lines 91-94: the loop over the services, from the i-th on.  *)
(* rs[i] is the number random.randint returns for the i-th service.        *)
RECURSIVE ValidateServices(_, _, _)
ValidateServices(cfg, i, rs) ==
    IF i > Len(cfg["services"])
    THEN [cfg |-> cfg, err |-> "none"]
    ELSE LET service == cfg["services"][i]
         IN  IF "name" \notin DOMAIN service
             THEN [cfg |-> cfg, err |-> "KeyError"]
             ELSE LET n1 == IF service["name"] = <<>>
                            THEN DefaultName(rs[i])
                            ELSE service["name"]
                      c1 == [cfg EXCEPT !["services"][i]["name"] = Normalize(n1)]
                  IN  ValidateServices(c1, i + 1, rs)

(* A faulty variant of ValidateRoutes: a reference is repaired only when   *)
(* it is empty, the test `not in service_names` is left out.               *)
RECURSIVE ValidateRoutesEmptyOnly(_, _, _, _)
ValidateRoutesEmptyOnly(cfg, service_names, j, rr) ==
    IF j > Len(cfg["routes"])
    THEN [cfg |-> cfg, err |-> "none"]
    ELSE LET route == cfg["routes"][j]
         IN  IF "service_name" \notin DOMAIN route
             THEN [cfg |-> cfg, err |-> "KeyError"]
             ELSE LET sn == route["service_name"]
                      repair == sn = <<>>
                      fresh == repair /\ service_names = <<>>
                      c1 == IF fresh
                            THEN AddService(cfg, DefaultName(rr[j]), <<>>, rr[j]).cfg
                            ELSE cfg
                      sn1 == IF ~repair THEN sn
                             ELSE IF service_names /= <<>> THEN service_names[1]
                             ELSE DefaultName(rr[j])
                      c2 == [c1 EXCEPT !["routes"][j]["service_name"] = Normalize(sn1)]
                  IN  ValidateRoutesEmptyOnly(c2, service_names, j + 1, rr)

(* A faulty variant of ValidateRoutes: when a default service is created   *)
(* for a route, the route is not bound to it (line 106 is left out).       *)
RECURSIVE ValidateRoutesUnbound(_, _, _, _)
ValidateRoutesUnbound(cfg, service_names, j, rr) ==
    IF j > Len(cfg["routes"])
    THEN [cfg |-> cfg, err |-> "none"]
    ELSE LET route == cfg["routes"][j]
         IN  IF "service_name" \notin DOMAIN route
             THEN [cfg |-> cfg, err |-> "KeyError"]
             ELSE LET sn == route["service_name"]
                      repair == \/ sn = <<>>
                                \/ \A i \in 1..Len(service_names) : service_names[i] /= sn
                      fresh == repair /\ service_names = <<>>
                      c1 == IF fresh
                            THEN AddService(cfg, DefaultName(rr[j]), <<>>, rr[j]).cfg
                            ELSE cfg
                      sn1 == IF ~repair THEN sn
                             ELSE IF service_names /= <<>> THEN service_names[1]
                             ELSE sn
                      c2 == [c1 EXCEPT !["routes"][j]["service_name"] = Normalize(sn1)]
                  IN  ValidateRoutesUnbound(c2, service_names, j + 1, rr)

(* validate(), lines 98-108: the loop over the routes, from the j-th on.   *)
(* service_names is the list computed once at line 97.                     *)
RECURSIVE ValidateRoutes(_, _, _, _)
ValidateRoutes(cfg, service_names, j, rr) ==
    IF j > Len(cfg["routes"])
    THEN [cfg |-> cfg, err |-> "none"]
    ELSE LET route == cfg["routes"][j]
         IN  IF "service_name" \notin DOMAIN route
             THEN [cfg |-> cfg, err |-> "KeyError"]
             ELSE LET sn == route["service_name"]
                      repair == \/ sn = <<>>
                                \/ \A i \in 1..Len(service_names) : service_names[i] /= sn
                      fresh == repair /\ service_names = <<>>
                      c1 == IF fresh
                            THEN AddService(cfg, DefaultName(rr[j]), <<>>, rr[j]).cfg
                            ELSE cfg
                      sn1 == IF ~repair THEN sn
                             ELSE IF service_names /= <<>> THEN service_names[1]
                             ELSE DefaultName(rr[j])
                      c2 == [c1 EXCEPT !["routes"][j]["service_name"] = Normalize(sn1)]
                  IN  ValidateRoutes(c2, service_names, j + 1, rr)

ServiceNames(cfg) == [i \in 1..Len(cfg["services"]) |-> cfg["services"][i]["name"]]

Validate(cfg, rs, rr) ==
    IF "services" \notin DOMAIN cfg
    THEN [cfg |-> cfg, err |-> "KeyError"]
    ELSE LET s == ValidateServices(cfg, 1, rs)
         IN  IF s.err /= "none" THEN s
             ELSE IF "routes" \notin DOMAIN s.cfg
             THEN [cfg |-> s.cfg, err |-> "KeyError"]
             ELSE ValidateRoutes(s.cfg, ServiceNames(s.cfg), 1, rr)

(* The random numbers a validate() of cfg may draw: one for each service   *)
(* with an empty name, one for each route when there is no service.        *)
ServiceDraws(cfg) ==
    IF "services" \notin DOMAIN cfg THEN {<<>>}
    ELSE [{i \in 1..Len(cfg["services"]) :
              /\ "name" \in DOMAIN cfg["services"][i]
              /\ cfg["services"][i]["name"] = <<>>} -> RandDraws]

RouteDraws(cfg) ==
    IF \/ "services" \notin DOMAIN cfg
       \/ "routes" \notin DOMAIN cfg
       \/ cfg["services"] /= <<>>
    THEN {<<>>}
    ELSE [{j \in 1..Len(cfg["routes"]) :
              "service_name" \in DOMAIN cfg["routes"][j]} -> RandDraws]


----------------------------------------------------------------------------
(* The persisted formats.  A document is the sequence of the top-level     *)
(* <<key, value>> members in the order the serializer writes them:         *)
(* json.dumps keeps the dict's insertion order, yaml.dump sorts the keys.  *)

(* The insertion order of the dict __init__ builds. *)
FreshKeys == <<"services", "routes", "plugins", "consumers">>

(* self.config[k] = ...: a new key is inserted last, a key that is there   *)
(* keeps its place.                                                        *)
SetKey(order, k) ==
    IF \E i \in 1..Len(order) : order[i] = k THEN order ELSE Append(order, k)

(* The insertion order after add_* calls on a dict of insertion order      *)
(* `order`: add_plugin is the only one that sets a key, "auth_plugin".     *)
AddedKeys(order, cfg) ==
    IF "auth_plugin" \in DOMAIN cfg THEN SetKey(order, "auth_plugin") ELSE order

(* The keys the program sets, in the order yaml.dump sorts them. *)
YamlKeyOrder ==
    <<"auth_plugin", "consumers", "plugins", "routes", "services", "termination_note">>

Members(cfg, order) ==
    LET Present(k) == k \in DOMAIN cfg
        present == SelectSeq(order, Present)
    IN  [i \in 1..Len(present) |-> <<present[i], cfg[present[i]]>>]

(* to_json(): `order` is the insertion order of cfg *)
ToJson(cfg, order) == Members(cfg, order)
ToYaml(cfg) == Members(cfg, YamlKeyOrder)

(* The insertion order of the dict json.loads / yaml.safe_load builds: the *)
(* keys in the order of their first member.                                *)
DocKeys(doc) ==
    LET First(i) == \A j \in 1..(i - 1) : doc[j][1] /= doc[i][1]
        firsts == {i \in 1..Len(doc) : First(i)}
        Nth(n) == CHOOSE i \in firsts : Cardinality({j \in firsts : j <= i}) = n
    IN  [n \in 1..Cardinality(firsts) |-> doc[Nth(n)][1]]

(* json.loads / yaml.safe_load of a document: the last member of a key wins *)
ParseDoc(doc) ==
    [k \in {doc[i][1] : i \in 1..Len(doc)} |->
        LET last == CHOOSE i \in 1..Len(doc) :
                        /\ doc[i][1] = k
                        /\ \A j \in (i + 1)..Len(doc) : doc[j][1] /= k
        IN  doc[last][2]]

LoadFromJson(json_string, rs, rr) == Validate(ParseDoc(json_string), rs, rr)
LoadFromYaml(yaml_string, rs, rr) == Validate(ParseDoc(yaml_string), rs, rr)

(* file_path.endswith(suffix): a path is the sequence of its stem and its  *)
(* dot-suffixes.                                                           *)
EndsWith(file_path, suffix) ==
    file_path /= <<>> /\ file_path[Len(file_path)] = suffix

(* A faulty variant of LoadFromFile: the file is parsed and assigned       *)
(* before its suffix is looked at.                                         *)
LoadFromFileAssignFirst(cfg, file_path, exists, content, rs, rr) ==
    IF ~exists
    THEN [cfg |-> cfg, err |-> "FileNotFoundError", validated |-> FALSE]
    ELSE IF \/ EndsWith(file_path, ".json") \/ EndsWith(file_path, ".yaml")
            \/ EndsWith(file_path, ".yml")
    THEN LET v == Validate(ParseDoc(content), rs, rr)
         IN  [cfg |-> v.cfg, err |-> v.err, validated |-> TRUE]
    ELSE [cfg |-> ParseDoc(content), err |-> "ValueError", validated |-> FALSE]

(* load_from_file(file_path): open() raises when the file is missing; the  *)
(* suffix selects the parser; validate() runs after the with block.        *)
(* `validated` tells whether line 190 was reached.                         *)
LoadFromFile(cfg, file_path, exists, content, rs, rr) ==
    IF ~exists
    THEN [cfg |-> cfg, err |-> "FileNotFoundError", validated |-> FALSE]
    ELSE IF EndsWith(file_path, ".json")
    THEN LET v == Validate(ParseDoc(content), rs, rr)
         IN  [cfg |-> v.cfg, err |-> v.err, validated |-> TRUE]
    ELSE IF EndsWith(file_path, ".yaml") \/ EndsWith(file_path, ".yml")
    THEN LET v == Validate(ParseDoc(content), rs, rr)
         IN  [cfg |-> v.cfg, err |-> v.err, validated |-> TRUE]
    ELSE [cfg |-> cfg, err |-> "ValueError", validated |-> FALSE]

(* A faulty variant of KeyAuthConsumers: every consumer that has an        *)
(* auth_type gets a credential.                                            *)
KeyAuthConsumersAnyAuth(cfg) ==
    LET HasAuth(c) == "auth_type" \in DOMAIN c
    IN  SelectSeq(cfg["consumers"], HasAuth)

(* to_declarative_config() *)
KeyAuthConsumers(cfg) ==
    LET IsKeyAuth(c) == "auth_type" \in DOMAIN c /\ c["auth_type"] = "key-auth"
    IN  SelectSeq(cfg["consumers"], IsKeyAuth)

ToDeclarativeConfig(cfg) ==
    LET base ==
          [_format_version |-> "3.0",
           services |-> [i \in 1..Len(cfg["services"]) |->
                            [name |-> cfg["services"][i]["name"],
                             url |-> cfg["services"][i]["url"]]],
           routes |-> [i \in 1..Len(cfg["routes"]) |->
                          LET route == cfg["routes"][i]
                          IN  [k \in (DOMAIN route \ {"service_name"}) \cup {"service"} |->
                                  IF k = "service"
                                  THEN [name |-> route["service_name"]]
                                  ELSE route[k]]],
           plugins |-> cfg["plugins"],
           consumers |-> [i \in 1..Len(cfg["consumers"]) |->
                             [username |-> cfg["consumers"][i]["username"]]],
           consumer_groups |-> <<>>]
        ka == KeyAuthConsumers(cfg)
        creds == [i \in 1..Len(ka) |->
                    [consumer |-> [username |-> ka[i]["username"]],
                     key |-> <<"demo-key-">> \o ka[i]["username"]]]
    IN  IF ka = <<>> THEN base
        ELSE [k \in DOMAIN base \cup {"keyauth_credentials"} |->
                 IF k = "keyauth_credentials" THEN creds ELSE base[k]]

----------------------------------------------------------------------------
(* Inputs of the configuration operations. *)

NameInputs == {<<>>, <<"a">>, <<"A", "-", "b">>}
UrlInputs == {<<>>, <<"http://", "up">>}
PathInputs == {<< <<"/x">> >>}
RouteNameInputs == {<<>>, <<"r">>}
PluginInputs == {<<"key-auth", EmptyDict>>, <<"jwt", EmptyDict>>,
                 <<"rate-limiting", [minute |-> 60, policy |-> "local"]>>}
ConsumerInputs == {<<<<"demo-user">>, "">>, <<<<"demo-user">>, "key-auth">>,
                   <<<<"bob">>, "jwt">>}

(* Documents handed to the bulk load: well-formed ones and malformed ones  *)
(* (a name that is empty, not normalised or missing, a missing list).      *)
DocNames == {<<>>, <<"A", "-", "b">>}
DocRefs == {<<>>, <<"A", "-", "b">>, <<"a", "_", "b">>}
DocServices == {[name |-> n, url |-> <<"http://", "up">>] : n \in DocNames}
                 \cup {[url |-> <<"http://", "up">>]}
DocRoutes == {[service_name |-> n, paths |-> << <<"/x">> >>, name |-> <<"r">>] : n \in DocRefs}
               \cup {[paths |-> << <<"/x">> >>, name |-> <<"r">>]}
Docs ==
    LET ss == SeqsUpTo(DocServices, MaxDocServices)
        rs == SeqsUpTo(DocRoutes, MaxDocRoutes)
    IN  {[services |-> s, routes |-> r, plugins |-> <<>>, consumers |-> <<>>] :
            s \in ss, r \in rs}
        \cup {[services |-> s, plugins |-> <<>>, consumers |-> <<>>] : s \in ss}
        \cup {[routes |-> r, plugins |-> <<>>, consumers |-> <<>>] : r \in rs}

(* The files load_from_file is called on: a path, and whether the file    *)
(* exists.  A file with a supported suffix holds a document of Docs in     *)
(* that format; the content of any other file is never parsed.             *)
FileInputs == {<<<<"cfg", ".json">>, TRUE>>, <<<<"cfg", ".yaml">>, TRUE>>,
               <<<<"cfg", ".yml">>, TRUE>>, <<<<"cfg", ".txt">>, TRUE>>,
               <<<<"cfg", ".JSON">>, TRUE>>, <<<<"gone", ".txt">>, FALSE>>}

Parsed(file) ==
    /\ file[2]
    /\ \/ EndsWith(file[1], ".json") \/ EndsWith(file[1], ".yaml")
       \/ EndsWith(file[1], ".yml")

(* The documents a parsed file holds: the documents of Docs that list at   *)
(* most one service and at most one route.                                 *)
Short(d, list) == list \in DOMAIN d => Len(d[list]) <= 1
FileDocs(file) ==
    IF Parsed(file) THEN {d \in Docs : Short(d, "services") /\ Short(d, "routes")}
    ELSE {EmptyConfig}

FileContent(file_path, d) ==
    IF EndsWith(file_path, ".json") THEN ToJson(d, FreshKeys) ELSE ToYaml(d)

Entities(cfg) ==
    Len(cfg["services"]) + Len(cfg["routes"]) + Len(cfg["plugins"]) + Len(cfg["consumers"])

----------------------------------------------------------------------------
(* The configuration operations as actions.  An operation that raised ends *)
(* the run (main() returns 1), so every operation requires err = "none".   *)

Ready == err = "none" /\ pc = "idle"

DoAddService(name, url, r) ==
    /\ Ready /\ Entities(config) < MaxEntities
    /\ LET a == AddService(config, name, url, r)
       IN  config' = a.cfg /\ ret' = a.ret
    /\ UNCHANGED keys
    /\ op' = "add_service" /\ args' = <<name, url>> /\ err' = "none" /\ streak' = 0
    /\ UNCHANGED <<depVars, genVars, mainVars>>

DoAddRoute(service_name, paths, name, r) ==
    /\ Ready /\ Entities(config) < MaxEntities
    /\ LET a == AddRoute(config, service_name, paths, name, r)
       IN  config' = a.cfg /\ ret' = a.ret
    /\ UNCHANGED keys
    /\ op' = "add_route" /\ args' = <<service_name, paths, name>>
    /\ err' = "none" /\ streak' = 0
    /\ UNCHANGED <<depVars, genVars, mainVars>>

DoAddPlugin(name, pconfig) ==
    /\ Ready /\ Entities(config) < MaxEntities
    /\ config' = AddPlugin(config, name, pconfig)
    /\ keys' = AddedKeys(keys, config')
    /\ op' = "add_plugin" /\ args' = <<>> /\ ret' = <<>> /\ err' = "none" /\ streak' = 0
    /\ UNCHANGED <<depVars, genVars, mainVars>>

DoAddConsumer(username, auth_type) ==
    /\ Ready /\ Entities(config) < MaxEntities
    /\ config' = AddConsumer(config, username, auth_type)
    /\ UNCHANGED keys
    /\ op' = "add_consumer" /\ args' = <<>> /\ ret' = <<>> /\ err' = "none" /\ streak' = 0
    /\ UNCHANGED <<depVars, genVars, mainVars>>

DoValidate ==
    /\ Ready
    /\ \E rs \in ServiceDraws(config), rr \in RouteDraws(config) :
          LET v == Validate(config, rs, rr)
          IN  config' = v.cfg /\ err' = v.err
    /\ UNCHANGED keys
    /\ op' = "validate" /\ args' = <<>> /\ ret' = <<>>
    /\ streak' = IF streak < 2 THEN streak + 1 ELSE 2
    /\ UNCHANGED <<depVars, genVars, mainVars>>

(* load_from_json / load_from_yaml of a document supplied from outside.    *)
(* The load replaces the whole model, so its outcome does not depend on    *)
(* the state it is called in; main() calls it on the fresh manager.        *)
DoLoadFromJson(d) ==
    /\ Ready /\ op = "init"
    /\ \E rs \in ServiceDraws(d), rr \in RouteDraws(d) :
          LET v == LoadFromJson(ToJson(d, FreshKeys), rs, rr)
          IN  config' = v.cfg /\ err' = v.err
    /\ keys' = DocKeys(ToJson(d, FreshKeys))
    /\ op' = "load_from_json" /\ args' = <<>> /\ ret' = <<>> /\ streak' = 1
    /\ UNCHANGED <<depVars, genVars, mainVars>>

DoLoadFromYaml(d) ==
    /\ Ready /\ op = "init"
    /\ \E rs \in ServiceDraws(d), rr \in RouteDraws(d) :
          LET v == LoadFromYaml(ToYaml(d), rs, rr)
          IN  config' = v.cfg /\ err' = v.err
    /\ keys' = DocKeys(ToYaml(d))
    /\ op' = "load_from_yaml" /\ args' = <<>> /\ ret' = <<>> /\ streak' = 1
    /\ UNCHANGED <<depVars, genVars, mainVars>>

(* load_from_file of a file supplied from outside.  A load that parses the *)
(* file replaces the whole model like the loads above; a load that raises  *)
(* before it parses anything can be observed in every state.               *)
DoLoadFromFile(file, d) ==
    /\ Ready /\ (Parsed(file) => op = "init")
    /\ \E rs \in ServiceDraws(d), rr \in RouteDraws(d) :
          LET v == LoadFromFile(config, file[1], file[2], FileContent(file[1], d), rs, rr)
          IN  /\ config' = v.cfg /\ err' = v.err
              /\ keys' = IF v.validated THEN DocKeys(FileContent(file[1], d)) ELSE keys
              /\ streak' = IF v.validated THEN 1 ELSE streak
    /\ op' = "load_from_file" /\ args' = <<file[1]>> /\ ret' = <<>>
    /\ UNCHANGED <<depVars, genVars, mainVars>>

(* to_json() followed by load_from_json() of its output, and the same for  *)
(* YAML: the round trip through a persisted format.                        *)
DoRoundTripJson ==
    /\ Ready
    /\ \E rs \in ServiceDraws(config), rr \in RouteDraws(config) :
          LET v == LoadFromJson(ToJson(config, keys), rs, rr)
          IN  config' = v.cfg /\ err' = v.err
    /\ keys' = DocKeys(ToJson(config, keys))
    /\ op' = "roundtrip_json" /\ args' = <<>> /\ ret' = <<>> /\ streak' = 1
    /\ UNCHANGED <<depVars, genVars, mainVars>>

DoRoundTripYaml ==
    /\ Ready
    /\ \E rs \in ServiceDraws(config), rr \in RouteDraws(config) :
          LET v == LoadFromYaml(ToYaml(config), rs, rr)
          IN  config' = v.cfg /\ err' = v.err
    /\ keys' = DocKeys(ToYaml(config))
    /\ op' = "roundtrip_yaml" /\ args' = <<>> /\ ret' = <<>> /\ streak' = 1
    /\ UNCHANGED <<depVars, genVars, mainVars>>

NoError == [type |-> "none", text |-> <<>>]
NoResults == [services |-> <<>>, routes |-> <<>>, plugins |-> <<>>, consumers |-> <<>>]

DeployIdle ==
    /\ pc = "idle" /\ phase = "services" /\ idx = 1 /\ calls = <<>>
    /\ results = NoResults /\ lastStatus = 0 /\ failAt = 0 /\ derr = NoError

(* No specification has been asked for. *)
GeneratorIdle ==
    /\ business_type = <<>> /\ features = <<>> /\ provider = "absent"
    /\ response = <<>> /\ specification = [object |-> <<>>] /\ stage = "none"

(* main() is not running: the operations are called on the objects directly. *)
NoFile == [exists |-> FALSE, project |-> <<>>, content |-> <<>>]

(* No interactive call is in progress. *)
NoRun == [at |-> "none", call |-> "none"]

MainIdle ==
    /\ mpc = "none" /\ exit_status = -1 /\ project_name = <<>> /\ written = NoFile
    /\ run = NoRun

Init ==
    /\ config = EmptyConfig
    /\ op = "init" /\ args = <<>> /\ ret = <<>> /\ err = "none" /\ streak = 0
    /\ keys = AddedKeys(FreshKeys, config)
    /\ DeployIdle /\ GeneratorIdle /\ MainIdle

Next ==
    \/ \E name \in NameInputs, url \in UrlInputs, r \in RandDraws :
          DoAddService(name, url, r)
    \/ \E sn \in NameInputs, p \in PathInputs, n \in RouteNameInputs, r \in RandDraws :
          DoAddRoute(sn, p, n, r)
    \/ \E p \in PluginInputs : DoAddPlugin(p[1], p[2])
    \/ \E c \in ConsumerInputs : DoAddConsumer(c[1], c[2])
    \/ DoValidate
    \/ \E d \in Docs : DoLoadFromJson(d)
    \/ \E d \in Docs : DoLoadFromYaml(d)
    \/ \E file \in FileInputs : \E d \in FileDocs(file) : DoLoadFromFile(file, d)
    \/ DoRoundTripJson
    \/ DoRoundTripYaml

Spec == Init /\ [][Next]_vars

(* The same manager driven only by add_service, add_route without an       *)
(* explicit name, and validate(), up to MaxRouteEntities services and      *)
(* routes.                                                                 *)
MaxRouteEntities == 3

DoAddServiceOnly(name, url, r) ==
    /\ Ready /\ Entities(config) < MaxRouteEntities
    /\ LET a == AddService(config, name, url, r)
       IN  config' = a.cfg /\ ret' = a.ret
    /\ UNCHANGED keys
    /\ op' = "add_service" /\ args' = <<name, url>> /\ err' = "none" /\ streak' = 0
    /\ UNCHANGED <<depVars, genVars, mainVars>>

DoAddRouteUnnamed(service_name, paths, r) ==
    /\ Ready /\ Entities(config) < MaxRouteEntities
    /\ LET a == AddRoute(config, service_name, paths, <<>>, r)
       IN  config' = a.cfg /\ ret' = a.ret
    /\ UNCHANGED keys
    /\ op' = "add_route" /\ args' = <<service_name, paths, <<>> >>
    /\ err' = "none" /\ streak' = 0
    /\ UNCHANGED <<depVars, genVars, mainVars>>

NextRoutes ==
    \/ \E name \in NameInputs, url \in UrlInputs, r \in RandDraws :
          DoAddServiceOnly(name, url, r)
    \/ \E sn \in NameInputs, p \in PathInputs, r \in RandDraws :
          DoAddRouteUnnamed(sn, p, r)
    \/ DoValidate

SpecRoutes == Init /\ [][NextRoutes]_vars

(* validate() called on a document that was just assigned to self.config:  *)
(* the state of load_from_json between lines 172 and 173 (load_from_yaml:  *)
(* 177 and 178).                                                           *)
InitValidate ==
    /\ config \in Docs
    /\ op = "init" /\ args = <<>> /\ ret = <<>> /\ err = "none" /\ streak = 0
    /\ keys = DocKeys(ToJson(config, FreshKeys))
    /\ DeployIdle /\ GeneratorIdle /\ MainIdle

NextValidate == DoValidate

SpecValidate == InitValidate /\ [][NextValidate]_vars


----------------------------------------------------------------------------
(* KongAdminClient.deploy_configuration.  Every request to the remote      *)
(* admin interface is one step; the remote answers it with any status of   *)
(* Statuses.  phase and idx say which loop iteration issues the next       *)
(* request; phase "auth" is the add_consumer_auth call of consumer idx.    *)

MaxDeployEntities == 4   \* services + routes + plugins + consumers of a deployed config

Statuses == {200, 201, 204, 404, 500}

(* A faulty variant of Accepted: every 2xx status is accepted. *)
Accepted2xx == 200..299

(* `response.status_code not in (200, 201)` *)
Accepted == {200, 201}

(* response.text of a response with the given status *)
ResponseText(status) == <<"body", ToString(status)>>

(* response.json() of the response to a request *)
ResponseJson(kind, name) == [created |-> kind, name |-> name]

Request(kind, url, data) == [kind |-> kind, url |-> url, data |-> data]

Failure(what, status) ==
    [type |-> "Exception", text |-> <<"Failed to ", what, ": ">> \o ResponseText(status)]

(* A faulty variant of NextPos: the plugin loop runs before the route loop. *)
RECURSIVE NextPosPluginsFirst(_, _, _)
NextPosPluginsFirst(cfg, ph, i) ==
    IF ph = "services"
    THEN IF i <= Len(cfg["services"]) THEN <<ph, i>>
         ELSE NextPosPluginsFirst(cfg, "plugins", 1)
    ELSE IF ph = "plugins"
    THEN IF i <= Len(cfg["plugins"]) THEN <<ph, i>>
         ELSE NextPosPluginsFirst(cfg, "routes", 1)
    ELSE IF ph = "routes"
    THEN IF i <= Len(cfg["routes"]) THEN <<ph, i>>
         ELSE NextPosPluginsFirst(cfg, "consumers", 1)
    ELSE IF i <= Len(cfg["consumers"]) THEN <<ph, i>> ELSE <<"return", 0>>

(* The loop iteration that runs next when iteration i of loop ph is next   *)
(* in program order: exhausted loops are left, "return" is line 166.       *)
RECURSIVE NextPos(_, _, _)
NextPos(cfg, ph, i) ==
    IF ph = "services"
    THEN IF i <= Len(cfg["services"]) THEN <<ph, i>> ELSE NextPos(cfg, "routes", 1)
    ELSE IF ph = "routes"
    THEN IF i <= Len(cfg["routes"]) THEN <<ph, i>> ELSE NextPos(cfg, "plugins", 1)
    ELSE IF ph = "plugins"
    THEN IF i <= Len(cfg["plugins"]) THEN <<ph, i>> ELSE NextPos(cfg, "consumers", 1)
    ELSE IF i <= Len(cfg["consumers"]) THEN <<ph, i>> ELSE <<"return", 0>>

(* What a consumer's creation is followed by: its add_consumer_auth call   *)
(* (line 160) or the next iteration.                                       *)
AfterConsumer(cfg, i) ==
    LET consumer == cfg["consumers"][i]
    IN  IF "auth_type" \in DOMAIN consumer /\ consumer["auth_type"] /= "none"
        THEN <<"auth", i>>
        ELSE NextPos(cfg, "consumers", i + 1)

Goto(pos) ==
    /\ phase' = pos[1] /\ idx' = pos[2]
    /\ pc' = IF pos[1] = "return" THEN "done" ELSE "running"

(* A faulty variant of Respond: a rejected response is swallowed and the   *)
(* deploy goes on with the next request.                                   *)
RespondSwallow(req, status, what, list, next) ==
    /\ calls' = Append(calls, req)
    /\ lastStatus' = status
    /\ failAt' = IF failAt = 0 /\ status \notin 200..299 THEN Len(calls) + 1 ELSE failAt
    /\ results' = IF list = "none" \/ status \notin Accepted THEN results
                  ELSE [results EXCEPT ![list] =
                           Append(@, ResponseJson(req.kind, req.data.name))]
    /\ Goto(next)
    /\ UNCHANGED derr

(* A request was sent and answered with `status`: the create_* methods     *)
(* raise unless the status is accepted, and return response.json().        *)
Respond(req, status, what, list, next) ==
    /\ calls' = Append(calls, req)
    /\ lastStatus' = status
    /\ failAt' = IF failAt = 0 /\ status \notin 200..299 THEN Len(calls) + 1 ELSE failAt
    /\ IF status \in Accepted
       THEN /\ results' = IF list = "none" THEN results
                          ELSE [results EXCEPT ![list] =
                                   Append(@, ResponseJson(req.kind, req.data.name))]
            /\ Goto(next)
            /\ UNCHANGED derr
       ELSE /\ derr' = Failure(what, status)
            /\ pc' = "raised"
            /\ UNCHANGED <<results, phase, idx>>

DoDeployStart ==
    /\ pc = "idle" /\ err = "none"
    /\ results' = NoResults
    /\ Goto(NextPos(config, "services", 1))
    /\ UNCHANGED <<calls, lastStatus, failAt, derr>>
    /\ UNCHANGED <<cfgVars, genVars, mainVars>>

DoCreateService(status) ==
    /\ pc = "running" /\ phase = "services"
    /\ LET service == config["services"][idx]
       IN  Respond(Request("create_service", <<"/services">>,
                           [name |-> service["name"], url |-> service["url"]]),
                   status, "create service", "services",
                   NextPos(config, "services", idx + 1))
    /\ UNCHANGED <<cfgVars, genVars, mainVars>>

DoCreateRoute(status) ==
    /\ pc = "running" /\ phase = "routes"
    /\ LET route == config["routes"][idx]
           name == IF "name" \in DOMAIN route THEN route["name"] ELSE <<>>
       IN  Respond(Request("create_route",
                           <<"/services/">> \o route["service_name"] \o <<"/routes">>,
                           [paths |-> route["paths"], name |-> name]),
                   status, "create route", "routes",
                   NextPos(config, "routes", idx + 1))
    /\ UNCHANGED <<cfgVars, genVars, mainVars>>

DoCreatePlugin(status) ==
    /\ pc = "running" /\ phase = "plugins"
    /\ LET plugin == config["plugins"][idx]
       IN  Respond(Request("create_plugin", <<"/plugins">>, plugin),
                   status, "create plugin", "plugins",
                   NextPos(config, "plugins", idx + 1))
    /\ UNCHANGED <<cfgVars, genVars, mainVars>>

DoCreateConsumer(status) ==
    /\ pc = "running" /\ phase = "consumers"
    /\ LET consumer == config["consumers"][idx]
       IN  Respond(Request("create_consumer", <<"/consumers">>,
                           [name |-> consumer["username"]]),
                   status, "create consumer", "consumers",
                   AfterConsumer(config, idx))
    /\ UNCHANGED <<cfgVars, genVars, mainVars>>

(* add_consumer_auth, auth_type == "key-auth" *)
DoAddConsumerAuthKey(status) ==
    /\ pc = "running" /\ phase = "auth"
    /\ config["consumers"][idx]["auth_type"] = "key-auth"
    /\ LET username == config["consumers"][idx]["username"]
       IN  Respond(Request("add_consumer_auth",
                           <<"/consumers/">> \o username \o <<"/", "key-auth">>,
                           [name |-> username, key |-> <<"demo-key-">> \o username]),
                   status, "add consumer auth", "none",
                   NextPos(config, "consumers", idx + 1))
    /\ UNCHANGED <<cfgVars, genVars, mainVars>>

(* add_consumer_auth, the other branches: "jwt" passes and returns None,   *)
(* anything else raises ValueError; neither sends a request.               *)
DoAddConsumerAuthOther ==
    /\ pc = "running" /\ phase = "auth"
    /\ config["consumers"][idx]["auth_type"] /= "key-auth"
    /\ IF config["consumers"][idx]["auth_type"] = "jwt"
       THEN /\ Goto(NextPos(config, "consumers", idx + 1))
            /\ UNCHANGED derr
       ELSE /\ derr' = [type |-> "ValueError",
                        text |-> <<"Unsupported auth type: ",
                                   config["consumers"][idx]["auth_type"]>>]
            /\ pc' = "raised"
            /\ UNCHANGED <<phase, idx>>
    /\ UNCHANGED <<calls, results, lastStatus, failAt>>
    /\ UNCHANGED <<cfgVars, genVars, mainVars>>

(* The configurations deployed: built by add_* calls on a fresh manager.   *)
DeployRouteInputs == {<<"s", "1">>, <<"ghost">>}
DeployPluginInputs == {<<"key-auth", EmptyDict>>,
                       <<"rate-limiting", [minute |-> 60, policy |-> "local"]>>}
DeployAuthInputs == {"", "none", "key-auth", "jwt", "oauth2"}

RECURSIVE BuildConfig(_, _, _, _, _)
BuildConfig(cfg, ns, ra, pa, ca) ==
    IF Len(cfg["services"]) < ns
    THEN BuildConfig(AddService(cfg, <<"s", ToString(Len(cfg["services"]) + 1)>>,
                                <<>>, RandLo).cfg, ns, ra, pa, ca)
    ELSE IF Len(cfg["routes"]) < Len(ra)
    THEN BuildConfig(AddRoute(cfg, ra[Len(cfg["routes"]) + 1], << <<"/x">> >>, <<>>,
                              RandLo).cfg, ns, ra, pa, ca)
    ELSE IF Len(cfg["plugins"]) < Len(pa)
    THEN LET p == pa[Len(cfg["plugins"]) + 1]
         IN  BuildConfig(AddPlugin(cfg, p[1], p[2]), ns, ra, pa, ca)
    ELSE IF Len(cfg["consumers"]) < Len(ca)
    THEN LET i == Len(cfg["consumers"]) + 1
         IN  BuildConfig(AddConsumer(cfg, <<"user", ToString(i)>>, ca[i]), ns, ra, pa, ca)
    ELSE cfg

InitDeploy ==
    /\ \E ns \in 0..MaxDeployEntities :
       \E nr \in 0..(MaxDeployEntities - ns) :
       \E np \in 0..(MaxDeployEntities - ns - nr) :
       \E nc \in 0..(MaxDeployEntities - ns - nr - np) :
       \E ra \in [1..nr -> DeployRouteInputs] :
       \E pa \in [1..np -> DeployPluginInputs] :
       \E ca \in [1..nc -> DeployAuthInputs] :
          config = BuildConfig(EmptyConfig, ns, ra, pa, ca)
    /\ op = "init" /\ args = <<>> /\ ret = <<>> /\ err = "none" /\ streak = 0
    /\ keys = AddedKeys(FreshKeys, config)
    /\ DeployIdle /\ GeneratorIdle /\ MainIdle

NextDeploy ==
    \/ DoDeployStart
    \/ \E st \in Statuses : DoCreateService(st)
    \/ \E st \in Statuses : DoCreateRoute(st)
    \/ \E st \in Statuses : DoCreatePlugin(st)
    \/ \E st \in Statuses : DoCreateConsumer(st)
    \/ \E st \in Statuses : DoAddConsumerAuthKey(st)
    \/ DoAddConsumerAuthOther

SpecDeploy == InitDeploy /\ [][NextDeploy]_vars


----------------------------------------------------------------------------
(* ApiSpecificationGenerator.  A response text is a sequence of the tokens *)
(* of JsonTokens: "fence" stands for the three backquotes of a code fence, *)
(* "k:" for a key and its colon, the other tokens for themselves.  A       *)
(* parsed value is [number |-> n] or [object |-> d] with d the dict from   *)
(* the keys to the parsed values.                                          *)

MaxResponseLen == 4   \* number of tokens of a response text

JsonTokens == {"fence", "json", " ", "{", "}", "1", "k:"}

RECURSIVE SkipWs(_, _)
SkipWs(s, i) == IF i <= Len(s) /\ s[i] = " " THEN SkipWs(s, i + 1) ELSE i

(* The digits from position i on: adjacent "1" tokens are one number. *)
RECURSIVE ScanNumber(_, _, _)
ScanNumber(s, i, n) ==
    IF i <= Len(s) /\ s[i] = "1"
    THEN ScanNumber(s, i + 1, 10 * n + 1)
    ELSE [val |-> n, next |-> i]

ParseFail == [ok |-> FALSE, val |-> [number |-> 0], next |-> 0]

(* The JSON decoder reading one value at position i. *)
RECURSIVE ParseValue(_, _)
ParseValue(s, i) ==
    IF i > Len(s) THEN ParseFail
    ELSE IF s[i] = "1"
    THEN LET d == ScanNumber(s, i, 0)
         IN  [ok |-> TRUE, val |-> [number |-> d.val], next |-> d.next]
    ELSE IF s[i] = "{"
    THEN LET j == SkipWs(s, i + 1)
         IN  IF j > Len(s) THEN ParseFail
             ELSE IF s[j] = "}"
             THEN [ok |-> TRUE, val |-> [object |-> <<>>], next |-> j + 1]
             ELSE IF s[j] = "k:"
             THEN LET v == ParseValue(s, SkipWs(s, j + 1))
                      m == SkipWs(s, v.next)
                  IN  IF v.ok /\ m <= Len(s) /\ s[m] = "}"
                      THEN [ok |-> TRUE,
                            val |-> [object |-> [x \in {"k"} |-> v.val]],
                            next |-> m + 1]
                      ELSE ParseFail
             ELSE ParseFail
    ELSE ParseFail

(* json.loads(s): one value, surrounded by optional whitespace; ok is      *)
(* FALSE where json.loads raises JSONDecodeError.                          *)
JsonLoads(s) ==
    LET v == ParseValue(s, SkipWs(s, 1))
    IN  IF v.ok /\ SkipWs(s, v.next) > Len(s)
        THEN [ok |-> TRUE, val |-> v.val]
        ELSE [ok |-> FALSE, val |-> [number |-> 0]]

RECURSIVE LastNonWs(_, _)
LastNonWs(s, j) == IF j >= 1 /\ s[j] = " " THEN LastNonWs(s, j - 1) ELSE j

(* match.strip() *)
Strip(s) == SubSeq(s, SkipWs(s, 1), LastNonWs(s, Len(s)))

(* The first position from i on that holds tok, 0 if there is none. *)
RECURSIVE Find(_, _, _)
Find(s, tok, i) ==
    IF i > Len(s) THEN 0
    ELSE IF s[i] = tok THEN i
    ELSE Find(s, tok, i + 1)

RECURSIVE FindLast(_, _, _)
FindLast(s, tok, j) ==
    IF j < 1 THEN 0
    ELSE IF s[j] = tok THEN j
    ELSE FindLast(s, tok, j - 1)

(* re.findall(r'```(?:json)?\s*(.*?)```', response, re.DOTALL) from        *)
(* position i on: the non-overlapping fenced blocks, in order.             *)
RECURSIVE FencedMatches(_, _)
FencedMatches(s, i) ==
    LET p == Find(s, "fence", i)
    IN  IF p = 0 THEN <<>>
        ELSE LET q1 == IF p + 1 <= Len(s) /\ s[p + 1] = "json" THEN p + 2 ELSE p + 1
                 q == SkipWs(s, q1)
                 r == Find(s, "fence", q)
             IN  IF r = 0 THEN <<>>
                 ELSE <<SubSeq(s, q, r - 1)>> \o FencedMatches(s, r + 1)

(* re.findall(r'(\{.*\})', response, re.DOTALL): the greedy match from the *)
(* first opening brace to the last closing brace.                          *)
BraceMatches(s) ==
    LET a == Find(s, "{", 1)
        b == FindLast(s, "}", Len(s))
    IN  IF a /= 0 /\ b > a THEN <<SubSeq(s, a, b)>> ELSE <<>>

(* A faulty variant of FirstParsed: of the matches that parse, the last    *)
(* one is returned.                                                        *)
RECURSIVE FirstParsedLast(_, _)
FirstParsedLast(matches, k) ==
    IF k > Len(matches) THEN [ok |-> FALSE, val |-> [number |-> 0]]
    ELSE LET v == JsonLoads(Strip(matches[k]))
             w == FirstParsedLast(matches, k + 1)
         IN  IF w.ok THEN w ELSE v

(* `for match in matches: try: return json.loads(match.strip())`, from the *)
(* k-th match on.                                                          *)
RECURSIVE FirstParsed(_, _)
FirstParsed(matches, k) ==
    IF k > Len(matches) THEN [ok |-> FALSE, val |-> [number |-> 0]]
    ELSE LET v == JsonLoads(Strip(matches[k]))
         IN  IF v.ok THEN v ELSE FirstParsed(matches, k + 1)

(* The hardcoded templates.  Of each service the name, url and routes are  *)
(* kept, of each route the name, path and endpoints, of each endpoint the  *)
(* path and method; descriptions and examples are left out.  Names are     *)
(* strings of one token, which normalisation leaves as they are.           *)
Endpoint(path, method) == [path |-> path, method |-> method]

GenericTemplate(feature_list) ==
    [object |->
      [services |-> <<
        [name |-> <<"api_service">>,
         url |-> <<"http://", "api-service", ":8080">>,
         routes |-> <<[name |-> <<"api_route">>, path |-> <<"/api">>,
                       endpoints |-> <<Endpoint("/items", "GET"),
                                       Endpoint("/items/{id}", "GET"),
                                       Endpoint("/items", "POST")>>]>>]>>]]

InsuranceTemplate(feature_list) ==
    [object |->
      [services |-> <<
        [name |-> <<"policy_service">>,
         url |-> <<"http://", "policy-service", ":8080">>,
         routes |-> <<[name |-> <<"policy_route">>, path |-> <<"/policies">>,
                       endpoints |-> <<Endpoint("/", "GET"), Endpoint("/{id}", "GET")>>]>>],
        [name |-> <<"claims_service">>,
         url |-> <<"http://", "claims-service", ":8080">>,
         routes |-> <<[name |-> <<"claims_route">>, path |-> <<"/claims">>,
                       endpoints |-> <<Endpoint("/", "GET"), Endpoint("/{id}", "GET")>>]>>]>>]]

EcommerceTemplate(feature_list) ==
    [object |->
      [services |-> <<
        [name |-> <<"product_service">>,
         url |-> <<"http://", "product-service", ":8080">>,
         routes |-> <<[name |-> <<"product_route">>, path |-> <<"/products">>,
                       endpoints |-> <<Endpoint("/", "GET"), Endpoint("/{id}", "GET")>>]>>],
        [name |-> <<"order_service">>,
         url |-> <<"http://", "order-service", ":8080">>,
         routes |-> <<[name |-> <<"order_route">>, path |-> <<"/orders">>,
                       endpoints |-> <<Endpoint("/", "GET"), Endpoint("/{id}", "GET")>>]>>]>>]]

(* `word in business_type`: a business type is a sequence of words. *)
Contains(btype, word) ==
    \E i \in 1..Len(btype) : btype[i] = word

(* A faulty variant of GenerateFromTemplates: the template is chosen by    *)
(* the feature list, the generic one for the "basic" feature set.          *)
GenerateFromTemplatesByFeatures(btype, feature_list) ==
    IF feature_list = <<"basic">> THEN GenericTemplate(feature_list)
    ELSE IF Contains(btype, "insurance") THEN InsuranceTemplate(feature_list)
    ELSE IF Contains(btype, "ecommerce") THEN EcommerceTemplate(feature_list)
    ELSE GenericTemplate(feature_list)

GenerateFromTemplates(btype, feature_list) ==
    IF Contains(btype, "insurance") THEN InsuranceTemplate(feature_list)
    ELSE IF Contains(btype, "ecommerce") THEN EcommerceTemplate(feature_list)
    ELSE GenericTemplate(feature_list)

(* _extract_json_from_response; stage names the return statement taken. *)
ExtractJsonFromResponse(resp, btype) ==
    LET whole == JsonLoads(resp)
    IN  IF whole.ok THEN [spec |-> whole.val, stage |-> "whole"]
        ELSE LET f == FirstParsed(FencedMatches(resp, 1), 1)
             IN  IF f.ok THEN [spec |-> f.val, stage |-> "fenced"]
                 ELSE LET b == FirstParsed(BraceMatches(resp), 1)
                      IN  IF b.ok THEN [spec |-> b.val, stage |-> "brace"]
                          ELSE [spec |-> GenerateFromTemplates(btype, <<"basic">>),
                                stage |-> "template"]

(* A faulty variant of GenerateWithAi: the provider's error is not caught. *)
GenerateWithAiPropagates(btype, feature_list, prov, resp) ==
    IF prov = "throws"
    THEN [spec |-> [object |-> <<>>], stage |-> "none", err |-> "RuntimeError"]
    ELSE LET e == ExtractJsonFromResponse(resp, btype)
         IN  [spec |-> e.spec, stage |-> e.stage, err |-> "none"]

(* _generate_with_ai: generate_code either raises or returns the response. *)
GenerateWithAi(btype, feature_list, prov, resp) ==
    IF prov = "throws"
    THEN [spec |-> GenerateFromTemplates(btype, feature_list),
          stage |-> "provider_error", err |-> "none"]
    ELSE LET e == ExtractJsonFromResponse(resp, btype)
         IN  [spec |-> e.spec, stage |-> e.stage, err |-> "none"]

(* generate_api_specification *)
GenerateApiSpecification(btype, feature_list, prov, resp) ==
    IF prov /= "absent"
    THEN GenerateWithAi(btype, feature_list, prov, resp)
    ELSE [spec |-> GenerateFromTemplates(btype, feature_list),
          stage |-> "no_client", err |-> "none"]

BusinessTypes == {<<"insurance">>, <<"ecommerce">>, <<"ecommerce", "insurance">>,
                  <<"Insurance">>, <<"retail">>}
SpecFeatureLists == {<<>>, <<"key-auth", "rate-limiting">>}
Providers == {"absent", "throws", "returns"}

(* The response texts: every text of up to MaxResponseLen tokens, and the  *)
(* texts made of up to MaxSegments segments, a segment being a fenced      *)
(* block (with or without the json tag) or a piece of prose.  The blocks   *)
(* hold nothing, a number, an object, or a text that does not parse.       *)
MaxSegments == 3   \* segments of a response text built from blocks

Fenced(tagged, content) ==
    <<"fence">> \o (IF tagged THEN <<"json">> ELSE <<>>) \o content \o <<"fence">>

ResponseSegments ==
    {Fenced(FALSE, c) : c \in {<<>>, <<"1">>, <<"{", "}">>, <<"k:">>,
                               <<"{", "k:", "1", "}">>}}
    \cup {Fenced(TRUE, c) : c \in {<<"1">>, <<"{", "k:", "1", "}">>}}
    \cup {<<"{", "}">>, <<"k:">>, <<" ">>}

RECURSIVE Concat(_, _)
Concat(segments, i) ==
    IF i > Len(segments) THEN <<>> ELSE segments[i] \o Concat(segments, i + 1)

Responses ==
    SeqsUpTo(JsonTokens, MaxResponseLen)
    \cup {Concat(ss, 1) : ss \in SeqsUpTo(ResponseSegments, MaxSegments)}

DoGenerateApiSpecification ==
    /\ op = "init"
    /\ LET g == GenerateApiSpecification(business_type, features, provider, response)
       IN  specification' = g.spec /\ stage' = g.stage /\ err' = g.err
    /\ op' = "generate_api_specification"
    /\ UNCHANGED <<config, keys, args, ret, streak, business_type, features, provider,
                   response>>
    /\ UNCHANGED <<depVars, mainVars>>

InitExtract ==
    /\ config = EmptyConfig
    /\ op = "init" /\ args = <<>> /\ ret = <<>> /\ err = "none" /\ streak = 0
    /\ keys = AddedKeys(FreshKeys, config)
    /\ DeployIdle /\ MainIdle
    /\ business_type \in BusinessTypes
    /\ features \in SpecFeatureLists
    /\ provider \in Providers
    /\ response \in IF provider = "returns" THEN Responses ELSE {<<>>}
    /\ specification = [object |-> <<>>] /\ stage = "none"

NextExtract == DoGenerateApiSpecification

SpecExtract == InitExtract /\ [][NextExtract]_vars

----------------------------------------------------------------------------
(* KongConfigFromSpecGenerator: the transform of a specification and a     *)
(* feature list into configuration entries.  A feature token is one        *)
(* string.                                                                 *)

MaxSpecServices == 2   \* services of a specification given to the transform
MaxFeatures == 2       \* length of a feature list given to the transform

(* feature.lower() *)
FeatureLower(feature) ==
    IF feature = "Rate-Limiting" THEN "rate-limiting"
    ELSE IF feature = "KEY-AUTH" THEN "key-auth"
    ELSE feature

TerminationNote(route_name) ==
    <<"request-termination should be applied to route: ">> \o route_name

(* request-termination, lines 144-150: a note on the last route, if any *)
AddTerminationNote(cfg) ==
    IF cfg["routes"] = <<>> THEN cfg
    ELSE [k \in DOMAIN cfg \cup {"termination_note"} |->
             IF k = "termination_note"
             THEN TerminationNote(cfg["routes"][Len(cfg["routes"])]["name"])
             ELSE cfg[k]]

(* One iteration of the loop of _add_feature_plugins: the dispatch on the  *)
(* lower-cased token; a token that matches no branch does nothing.         *)
AddFeature(cfg, feature) ==
    LET feature_lower == FeatureLower(feature)
    IN  IF feature_lower \in {"key-auth", "jwt", "oauth2", "basic-auth"}
        THEN AddConsumer(AddPlugin(cfg, feature_lower, EmptyDict),
                         <<"demo-user">>, feature_lower)
        ELSE IF feature_lower = "rate-limiting"
        THEN AddPlugin(cfg, "rate-limiting", [minute |-> 60, policy |-> "local"])
        ELSE IF feature_lower = "response-transformer"
        THEN AddPlugin(cfg, "response-transformer",
                       [add |-> [headers |-> <<"x-kong-gateway: true">>]])
        ELSE IF feature_lower = "request-transformer"
        THEN AddPlugin(cfg, "request-transformer",
                       [add |-> [headers |-> <<"x-kong-request: true">>]])
        ELSE IF feature_lower = "http-log" \/ feature_lower = "logging"
        THEN AddPlugin(cfg, "http-log",
                       [http_endpoint |-> <<"http://", "logger:3000/log">>, method |-> "POST",
                        timeout |-> 10000, keepalive |-> 60000])
        ELSE IF feature_lower = "cors"
        THEN AddPlugin(cfg, "cors",
                       [origins |-> <<"*">>,
                        methods |-> <<"GET", "POST", "PUT", "DELETE", "PATCH", "OPTIONS">>,
                        headers |-> <<"Content-Type", "Authorization">>,
                        exposed_headers |-> <<"X-Auth-Token">>,
                        max_age |-> 3600])
        ELSE IF feature_lower = "proxy-cache" \/ feature_lower = "cache"
        THEN AddPlugin(cfg, "proxy-cache",
                       [strategy |-> "memory",
                        content_type |-> <<"application/json", "application/xml">>,
                        cache_ttl |-> 300, cache_control |-> TRUE])
        ELSE IF feature_lower = "ip-restriction"
        THEN AddPlugin(cfg, "ip-restriction", [allow |-> <<"127.0.0.1/32">>])
        ELSE IF feature_lower = "request-size-limiting"
        THEN AddPlugin(cfg, "request-size-limiting", [allowed_payload_size |-> 10])
        ELSE IF feature_lower = "request-termination"
        THEN AddTerminationNote(cfg)
        ELSE cfg

(* A faulty variant of AddFeaturePlugins: an authentication feature adds   *)
(* its plugin but no demo consumer.                                        *)
RECURSIVE AddFeaturePluginsNoConsumer(_, _, _)
AddFeaturePluginsNoConsumer(cfg, feature_list, k) ==
    IF k > Len(feature_list) THEN cfg
    ELSE LET fl == FeatureLower(feature_list[k])
             c1 == IF fl \in {"key-auth", "jwt", "oauth2", "basic-auth"}
                   THEN AddPlugin(cfg, fl, EmptyDict)
                   ELSE AddFeature(cfg, feature_list[k])
         IN  AddFeaturePluginsNoConsumer(c1, feature_list, k + 1)

(* A faulty variant of AddFeaturePlugins: a token that matches no branch   *)
(* is installed as a plugin of that name.                                  *)
RECURSIVE AddFeaturePluginsAnyToken(_, _, _)
AddFeaturePluginsAnyToken(cfg, feature_list, k) ==
    IF k > Len(feature_list) THEN cfg
    ELSE LET c1 == AddFeature(cfg, feature_list[k])
             c2 == IF c1 = cfg /\ FeatureLower(feature_list[k]) /= "request-termination"
                   THEN AddPlugin(cfg, FeatureLower(feature_list[k]), EmptyDict)
                   ELSE c1
         IN  AddFeaturePluginsAnyToken(c2, feature_list, k + 1)

(* _add_feature_plugins, from the k-th feature on *)
RECURSIVE AddFeaturePlugins(_, _, _)
AddFeaturePlugins(cfg, feature_list, k) ==
    IF k > Len(feature_list) THEN cfg
    ELSE AddFeaturePlugins(AddFeature(cfg, feature_list[k]), feature_list, k + 1)

(* generate_kong_config, lines 49-54: the routes of one service, from the  *)
(* j-th on; service_name is the name add_service returned.                 *)
RECURSIVE TransformRoutes(_, _, _, _)
TransformRoutes(cfg, service_name, route_specs, j) ==
    IF j > Len(route_specs) THEN cfg
    ELSE LET route_spec == route_specs[j]
             route_path == IF "path" \in DOMAIN route_spec
                           THEN route_spec["path"]
                           ELSE <<"/">> \o service_name
             route_name == IF "name" \in DOMAIN route_spec
                           THEN route_spec["name"]
                           ELSE service_name \o <<"-", "route">>
         IN  TransformRoutes(
                 AddRoute(cfg, service_name, <<route_path>>, route_name, RandLo).cfg,
                 service_name, route_specs, j + 1)

(* generate_kong_config, lines 40-54: the services, from the i-th on.      *)
(* rs[i] is the number random.randint returns for the i-th service.        *)
RECURSIVE TransformServices(_, _, _, _)
TransformServices(cfg, service_specs, i, rs) ==
    IF i > Len(service_specs) THEN cfg
    ELSE LET service_spec == service_specs[i]
             name0 == IF "name" \in DOMAIN service_spec THEN service_spec["name"] ELSE <<>>
             service_url == IF "url" \in DOMAIN service_spec
                            THEN service_spec["url"]
                            ELSE DefaultUrl(name0)
             a == AddService(cfg, name0, service_url, rs[i])
             c1 == IF "routes" \in DOMAIN service_spec
                   THEN TransformRoutes(a.cfg, a.ret, service_spec["routes"], 1)
                   ELSE a.cfg
         IN  TransformServices(c1, service_specs, i + 1, rs)

(* KongConfigFromSpecGenerator(spec).generate_kong_config(config, features) *)
(* `specification or {}` keeps a non-zero number, and `"services" in` it   *)
(* raises TypeError.                                                       *)
GenerateKongConfig(cfg, spec, feature_list, rs) ==
    IF "object" \notin DOMAIN spec /\ spec["number"] /= 0
    THEN [cfg |-> cfg, err |-> "TypeError"]
    ELSE LET d == IF "object" \in DOMAIN spec THEN spec["object"] ELSE <<>>
             c1 == IF "services" \in DOMAIN d
                   THEN TransformServices(cfg, d["services"], 1, rs)
                   ELSE cfg
         IN  [cfg |-> AddFeaturePlugins(c1, feature_list, 1), err |-> "none"]

(* The insertion order of the keys after _add_feature_plugins, from the    *)
(* k-th feature on: add_plugin sets "auth_plugin", line 150 sets           *)
(* "termination_note".                                                     *)
RECURSIVE FeatureKeys(_, _, _, _)
FeatureKeys(order, cfg, feature_list, k) ==
    IF k > Len(feature_list) THEN order
    ELSE LET c1 == AddFeature(cfg, feature_list[k])
             o1 == AddedKeys(order, c1)
             o2 == IF "termination_note" \in DOMAIN c1
                   THEN SetKey(o1, "termination_note")
                   ELSE o1
         IN  FeatureKeys(o2, c1, feature_list, k + 1)

(* The insertion order of the keys after generate_kong_config. *)
TransformKeys(order, cfg, spec, feature_list, rs) ==
    IF "object" \notin DOMAIN spec /\ spec["number"] /= 0
    THEN order
    ELSE LET d == IF "object" \in DOMAIN spec THEN spec["object"] ELSE <<>>
             c1 == IF "services" \in DOMAIN d
                   THEN TransformServices(cfg, d["services"], 1, rs)
                   ELSE cfg
         IN  FeatureKeys(order, c1, feature_list, 1)

(* The random numbers a transform of spec may draw: one for each service   *)
(* with an absent or empty name.                                           *)
TransformDraws(spec) ==
    IF "object" \notin DOMAIN spec \/ "services" \notin DOMAIN spec["object"]
    THEN {<<>>}
    ELSE LET ss == spec["object"]["services"]
         IN  [{i \in 1..Len(ss) : "name" \notin DOMAIN ss[i] \/ ss[i]["name"] = <<>>}
                 -> RandDraws]

FeatureInputs == {"key-auth", "oauth2", "rate-limiting", "Rate-Limiting",
                  "request-termination", "bogus"}

(* The specifications given to the transform. *)
SpecRoute == [name |-> <<"r">>, path |-> <<"/p">>]
ServiceSpecs ==
    {[name |-> n, url |-> <<"http://", "up">>, routes |-> <<SpecRoute>>] :
        n \in {<<>>, <<"A", "-", "b">>}}
    \cup {[name |-> <<"default_service_", "1000">>],
          [name |-> <<>>, routes |-> <<EmptyDict>>],
          [url |-> <<"http://", "up">>]}
TransformSpecs ==
    {[object |-> [services |-> ss]] : ss \in SeqsUpTo(ServiceSpecs, MaxSpecServices)}
    \cup {[object |-> <<>>], [number |-> 1]}

(* The configurations the transform is applied to: a fresh one, and one    *)
(* that holds a service, a route and a plugin.                             *)
TransformConfigs ==
    {EmptyConfig,
     AddPlugin(AddRoute(AddService(EmptyConfig, <<"a">>, <<>>, RandLo).cfg,
                        <<"a">>, << <<"/x">> >>, <<>>, RandLo).cfg,
               "cors", [max_age |-> 3600])}

DoGenerateKongConfig ==
    /\ op = "init"
    /\ \E rs \in TransformDraws(specification) :
          LET g == GenerateKongConfig(config, specification, features, rs)
          IN  /\ config' = g.cfg /\ err' = g.err
              /\ keys' = TransformKeys(keys, config, specification, features, rs)
    /\ op' = "generate_kong_config"
    /\ UNCHANGED <<args, ret, streak>>
    /\ UNCHANGED <<depVars, genVars, mainVars>>

InitTransform ==
    /\ config \in TransformConfigs
    /\ op = "init" /\ args = <<>> /\ ret = <<>> /\ err = "none" /\ streak = 0
    /\ keys = AddedKeys(FreshKeys, config)
    /\ DeployIdle /\ MainIdle
    /\ business_type = <<>> /\ provider = "absent" /\ response = <<>> /\ stage = "none"
    /\ specification \in TransformSpecs
    /\ features \in SeqsUpTo(FeatureInputs, MaxFeatures)

NextTransform == DoGenerateKongConfig

SpecTransform == InitTransform /\ [][NextTransform]_vars

(* The configuration the transform produced is deployed against a remote   *)
(* that accepts every request.                                             *)
DoDeployTransformed ==
    /\ op = "generate_kong_config"
    /\ DoDeployStart

NextTransformDeploy ==
    \/ DoGenerateKongConfig
    \/ DoDeployTransformed
    \/ \E st \in Accepted : DoCreateService(st)
    \/ \E st \in Accepted : DoCreateRoute(st)
    \/ \E st \in Accepted : DoCreatePlugin(st)
    \/ \E st \in Accepted : DoCreateConsumer(st)
    \/ \E st \in Accepted : DoAddConsumerAuthKey(st)
    \/ DoAddConsumerAuthOther

SpecTransformDeploy == InitTransform /\ [][NextTransformDeploy]_vars

----------------------------------------------------------------------------
(* UserInputCollector (src/input_collector.py): the interactive            *)
(* collection of services and plugins.  What the user types is an input    *)
(* of the operators.                                                       *)

(* service["metadata"][k] = v for every k of metadata, on the first        *)
(* service named service_name.                                             *)
SetMetadata(cfg, service_name, metadata) ==
    LET named == {i \in 1..Len(cfg["services"]) :
                     cfg["services"][i]["name"] = service_name}
    IN  IF named = {} THEN cfg
        ELSE LET first == CHOOSE i \in named : \A j \in named : i <= j
                 service == cfg["services"][first]
                 old == IF "metadata" \in DOMAIN service THEN service["metadata"] ELSE <<>>
                 new == [k \in DOMAIN old \cup DOMAIN metadata |->
                            IF k \in DOMAIN metadata THEN metadata[k] ELSE old[k]]
             IN  [cfg EXCEPT !["services"][first] =
                     [k \in DOMAIN service \cup {"metadata"} |->
                         IF k = "metadata" THEN new ELSE service[k]]]

(* collect_services, lines 158-165: the routes of one service of the       *)
(* specification, from the j-th on.                                        *)
RECURSIVE CollectSpecRoutes(_, _, _, _)
CollectSpecRoutes(cfg, service_name, route_specs, j) ==
    IF j > Len(route_specs) THEN cfg
    ELSE LET route_spec == route_specs[j]
             route_path == IF "path" \in DOMAIN route_spec
                           THEN route_spec["path"]
                           ELSE <<"/">> \o service_name
             route_name == IF "name" \in DOMAIN route_spec
                           THEN route_spec["name"]
                           ELSE service_name \o <<"-", "route">>
         IN  CollectSpecRoutes(
                 AddRoute(cfg, service_name, <<route_path>>, route_name, RandLo).cfg,
                 service_name, route_specs, j + 1)

(* collect_services, lines 134-167: the services of the specification,     *)
(* from the i-th on; added is the set added_services.                      *)
RECURSIVE CollectSpecServices(_, _, _, _, _, _, _)
CollectSpecServices(cfg, service_specs, i, added, btype, bparams, rs) ==
    IF i > Len(service_specs) THEN cfg
    ELSE LET service_spec == service_specs[i]
             name0 == IF "name" \in DOMAIN service_spec THEN service_spec["name"] ELSE <<>>
         IN  IF name0 \in added
             THEN CollectSpecServices(cfg, service_specs, i + 1, added, btype, bparams, rs)
             ELSE LET service_url == IF "url" \in DOMAIN service_spec
                                     THEN service_spec["url"]
                                     ELSE DefaultUrl(name0)
                      a == AddService(cfg, name0, service_url, rs[i])
                      c1 == SetMetadata(a.cfg, a.ret,
                                        [business_type |-> btype,
                                         business_params |-> bparams,
                                         specification |-> service_spec])
                      c2 == IF "routes" \in DOMAIN service_spec
                            THEN CollectSpecRoutes(c1, a.ret, service_spec["routes"], 1)
                            ELSE c1
                  IN  CollectSpecServices(c2, service_specs, i + 1, added \cup {a.ret},
                                          btype, bparams, rs)

(* The input stream.  `lines` is the number of answers it holds and `used`  *)
(* the number of prompts answered so far: input() returns while            *)
(* used < lines and raises EOFError after that.                            *)
Ended(used, lines) == used >= lines

(* _collect_routes_for_service, lines 296-304: paths are the answers to    *)
(* the path prompts, from the j-th on.                                     *)
RECURSIVE CollectRoutePaths(_, _, _, _, _, _)
CollectRoutePaths(cfg, service_name, paths, j, used, lines) ==
    IF j > Len(paths) THEN [cfg |-> cfg, used |-> used, err |-> "none"]
    ELSE IF Ended(used, lines) THEN [cfg |-> cfg, used |-> used, err |-> "EOFError"]
    ELSE LET route_path == IF paths[j] = <<>> THEN <<"/">> \o service_name ELSE paths[j]
         IN  CollectRoutePaths(
                 AddRoute(cfg, service_name, <<route_path>>, <<>>, RandLo).cfg,
                 service_name, paths, j + 1, used + 1, lines)

(* _collect_routes_for_service: the prompt for the number of routes, then  *)
(* one prompt for each path.                                               *)
CollectRoutesForService(cfg, service_name, paths, used, lines) ==
    IF Ended(used, lines) THEN [cfg |-> cfg, used |-> used, err |-> "EOFError"]
    ELSE CollectRoutePaths(cfg, service_name, paths, 1, used + 1, lines)

(* _collect_services_manually, lines 177-200: entries[i] holds the answers *)
(* given for the i-th service; the prompts for its name and its URL come   *)
(* before add_service.                                                     *)
RECURSIVE CollectManualEntries(_, _, _, _, _, _, _)
CollectManualEntries(cfg, entries, i, btype, bparams, used, lines) ==
    IF i > Len(entries) THEN [cfg |-> cfg, used |-> used, err |-> "none"]
    ELSE IF Ended(used + 1, lines) THEN [cfg |-> cfg, used |-> lines, err |-> "EOFError"]
    ELSE LET name0 == IF entries[i]["name"] = <<>>
                      THEN <<"service_", ToString(i)>>
                      ELSE entries[i]["name"]
             a == AddService(cfg, name0, entries[i]["url"], RandLo)
             c1 == SetMetadata(a.cfg, a.ret,
                               [business_type |-> btype, business_params |-> bparams])
             c2 == CollectRoutesForService(c1, a.ret, entries[i]["paths"], used + 2, lines)
         IN  IF c2.err /= "none" THEN c2
             ELSE CollectManualEntries(c2.cfg, entries, i + 1, btype, bparams,
                                       c2.used, lines)

(* _collect_services_manually: the prompt for the number of services;      *)
(* Len(entries) is the number answered.                                    *)
CollectServicesManually(cfg, entries, btype, bparams, used, lines) ==
    IF Ended(used, lines) THEN [cfg |-> cfg, used |-> used, err |-> "EOFError"]
    ELSE CollectManualEntries(cfg, entries, 1, btype, bparams, used + 1, lines)

(* collect_services: `self.api_specification and "services" in ...`; a     *)
(* specification that is a non-zero number raises TypeError.  The services *)
(* of a specification are added without a prompt.                          *)
CollectServices(cfg, spec, btype, bparams, entries, rs, used, lines) ==
    IF "object" \notin DOMAIN spec
    THEN IF spec["number"] /= 0
         THEN [cfg |-> cfg, used |-> used, err |-> "TypeError"]
         ELSE CollectServicesManually(cfg, entries, btype, bparams, used, lines)
    ELSE IF spec["object"] /= <<>> /\ "services" \in DOMAIN spec["object"]
    THEN [cfg |-> CollectSpecServices(cfg, spec["object"]["services"], 1, {},
                                      btype, bparams, rs),
          used |-> used, err |-> "none"]
    ELSE CollectServicesManually(cfg, entries, btype, bparams, used, lines)

(* One iteration of the loop of collect_plugins; limit is the number      *)
(* _get_int_input returns for the rate limit, endpoint the answer to the   *)
(* log endpoint prompt.                                                    *)
CollectPlugin(cfg, feature, limit, endpoint) ==
    LET feature_lower == FeatureLower(feature)
        log_endpoint == IF endpoint = <<>> THEN <<"http://", "logger:3000/log">>
                        ELSE endpoint
    IN  IF feature_lower \in {"key-auth", "jwt", "oauth2", "basic-auth"}
        THEN AddConsumer(AddPlugin(cfg, feature_lower, EmptyDict),
                         <<"demo-user">>, feature_lower)
        ELSE IF feature_lower = "rate-limiting"
        THEN AddPlugin(cfg, "rate-limiting", [minute |-> limit, policy |-> "local"])
        ELSE IF feature_lower = "response-transformer"
        THEN AddPlugin(cfg, "response-transformer",
                       [add |-> [headers |-> <<"x-kong-gateway: true">>]])
        ELSE IF feature_lower = "request-transformer"
        THEN AddPlugin(cfg, "request-transformer",
                       [add |-> [headers |-> <<"x-kong-request: true">>]])
        ELSE IF feature_lower = "http-log"
        THEN AddPlugin(cfg, "http-log",
                       [http_endpoint |-> log_endpoint, method |-> "POST",
                        timeout |-> 10000, keepalive |-> 60000])
        ELSE IF feature_lower = "cors"
        THEN AddPlugin(cfg, "cors",
                       [origins |-> <<"*">>,
                        methods |-> <<"GET", "POST", "PUT", "DELETE", "PATCH", "OPTIONS">>,
                        headers |-> <<"Content-Type", "Authorization">>,
                        exposed_headers |-> <<"X-Auth-Token">>,
                        max_age |-> 3600])
        ELSE cfg

(* collect_plugins, lines 222 and 250: the features that prompt before     *)
(* their plugin is added.                                                  *)
PluginPrompts(feature) == FeatureLower(feature) \in {"rate-limiting", "http-log"}

(* collect_plugins, from the k-th feature on *)
RECURSIVE CollectPlugins(_, _, _, _, _, _, _)
CollectPlugins(cfg, kong_features, k, limit, endpoint, used, lines) ==
    IF k > Len(kong_features) THEN [cfg |-> cfg, used |-> used, err |-> "none"]
    ELSE IF PluginPrompts(kong_features[k]) /\ Ended(used, lines)
    THEN [cfg |-> cfg, used |-> used, err |-> "EOFError"]
    ELSE CollectPlugins(CollectPlugin(cfg, kong_features[k], limit, endpoint),
                        kong_features, k + 1, limit, endpoint,
                        IF PluginPrompts(kong_features[k]) THEN used + 1 ELSE used,
                        lines)

(* collect_business_info: the prompt for the domain, and the one for the   *)
(* policy type (line 87) or the product type (line 98).                    *)
BusinessPrompts(btype) ==
    IF Contains(btype, "insurance") THEN 2
    ELSE IF Contains(btype, "ecommerce") /\ Contains(btype, "product") THEN 2
    ELSE 1

(* collect_project_info, collect_business_info and collect_kong_features:  *)
(* the prompts they answer.                                                *)
InfoPrompts(btype) == 1 + BusinessPrompts(btype) + 1

(* collect_services then collect_plugins, from `used` answered prompts on; *)
(* answers holds what the user types.                                      *)
CollectServicesAndPlugins(cfg, answers, spec, rs, used) ==
    LET s == CollectServices(cfg, spec, answers["business_type"],
                             answers["business_params"], answers["entries"], rs,
                             used, answers["lines"])
    IN  IF s.err /= "none" THEN s
        ELSE CollectPlugins(s.cfg, answers["kong_features"], 1,
                            answers["limit"], answers["endpoint"],
                            s.used, answers["lines"])

(* collect_all: the three information prompts, collect_services with the   *)
(* collector's api_specification, collect_plugins.                         *)
CollectAll(cfg, answers, spec, rs) ==
    IF Ended(InfoPrompts(answers["business_type"]) - 1, answers["lines"])
    THEN [cfg |-> cfg, used |-> answers["lines"], err |-> "EOFError"]
    ELSE CollectServicesAndPlugins(cfg, answers, spec, rs,
                                   InfoPrompts(answers["business_type"]))

----------------------------------------------------------------------------
(* DemoProjectGenerator (src/demo_generator.py) and main() (src/main.py).  *)
(* What the user answers, what the provider returns and whether the file   *)
(* system accepts the writes are inputs of the steps.                      *)

FsOutcomes == {"ok", "fail_first", "fail_later"}

(* to_declarative_config() raises KeyError when a key it subscripts is     *)
(* missing.                                                                *)
DeclarativeRaises(cfg) ==
    \/ \E k \in {"services", "routes", "plugins", "consumers"} : k \notin DOMAIN cfg
    \/ \E i \in 1..Len(cfg["services"]) :
          "name" \notin DOMAIN cfg["services"][i] \/ "url" \notin DOMAIN cfg["services"][i]
    \/ \E j \in 1..Len(cfg["routes"]) : "service_name" \notin DOMAIN cfg["routes"][j]
    \/ \E c \in 1..Len(cfg["consumers"]) : "username" \notin DOMAIN cfg["consumers"][c]

(* _generate_project_files with the repository's TemplateRenderer:         *)
(* create_project_files writes kong-config.json (line 65), then            *)
(* kong-config.yaml and kong.yaml, and then calls render_docker_compose    *)
(* with one argument more than it takes (fs_manager.py line 82), which     *)
(* raises TypeError; nothing after line 82 runs.  `order` is the insertion *)
(* order of cfg.  fs is what the file system does: every write succeeds,   *)
(* the first one fails, or the write of kong-config.yaml fails.            *)
GenerateProjectFiles(cfg, order, project, old_file, fs) ==
    IF fs = "fail_first" THEN [file |-> old_file, err |-> "OSError"]
    ELSE LET file == [exists |-> TRUE, project |-> project,
                      content |-> ToJson(cfg, order)]
         IN  IF fs = "fail_later" THEN [file |-> file, err |-> "OSError"]
             ELSE IF DeclarativeRaises(cfg) THEN [file |-> file, err |-> "KeyError"]
             ELSE [file |-> file, err |-> "TypeError"]

(* generate_from_interactive_input, lines 65-74, after the provider has    *)
(* answered: the transform when assume_kong_running is set, then           *)
(* collect_services and collect_plugins.  An exception ends the call where *)
(* it is raised, with what was changed before it.  rt and rc are the       *)
(* numbers random.randint returns in the transform and in                  *)
(* collect_services.                                                       *)
InteractiveConfig(cfg, answers, assume_kong_running, spec, rt, rc) ==
    LET t == IF assume_kong_running
             THEN GenerateKongConfig(cfg, spec, answers["kong_features"], rt)
             ELSE [cfg |-> cfg, err |-> "none"]
    IN  IF t.err /= "none"
        THEN [cfg |-> t.cfg, used |-> InfoPrompts(answers["business_type"]),
              err |-> t.err]
        ELSE CollectServicesAndPlugins(t.cfg, answers, spec, rc,
                                       InfoPrompts(answers["business_type"]))

(* os.path.basename(path): what follows the last "/" *)
Basename(file_path) ==
    LET slashes == {i \in 1..Len(file_path) : file_path[i] = "/"}
    IN  IF slashes = {} THEN file_path
        ELSE SubSeq(file_path, (CHOOSE i \in slashes : \A j \in slashes : j <= i) + 1,
                    Len(file_path))

(* os.path.splitext(os.path.basename(config_file))[0] of a path whose last *)
(* token is its dot-suffix                                                 *)
Stem(file_path) ==
    LET base == Basename(file_path)
    IN  SubSeq(base, 1, Len(base) - 1)

(* f"{output_dir}/{project_name}/kong-config.json" *)
ProjectConfigFile(name) == <<"output", "/">> \o name \o <<"/", "kong-config", ".json">>

(* The command line of the two entry points, main() of src/main.py and     *)
(* main() of src/demo_generator.py: --config (<<>> when absent), --deploy, *)
(* --project and, for demo_generator.py only, --assume-kong-running.       *)
(* api_key is the environment: whether GROQ_API_KEY is configured.         *)
MainConfigs == {<<>>, <<"cfg", ".json">>, <<"sub", "/", "cfg", ".json">>, <<"cfg", ".txt">>,
                <<"gone", ".json">>}
MainProjects == {<<>>, <<"demo">>}
MainArgs ==
    {a \in [entry : {"main.py", "demo_generator.py"}, config : MainConfigs, deploy : BOOLEAN,
            project : MainProjects, assume_kong_running : BOOLEAN, api_key : BOOLEAN] :
        a["entry"] = "main.py" => ~a["assume_kong_running"]}

(* A configuration file written by an earlier interactive run: its service *)
(* carries the specification it was made from.                             *)
SavedDocs ==
    {[services |-> <<[name |-> <<"a">>, url |-> <<"http://", "up">>,
                      metadata |-> [business_type |-> <<"generic">>,
                                    business_params |-> EmptyDict,
                                    specification |-> sp]]>>,
      routes |-> <<>>, plugins |-> <<>>, consumers |-> <<>>] :
        sp \in {[name |-> <<"a">>], [url |-> <<"http://", "up">>]}}

MainFiles == {<<<<"cfg", ".json">>, TRUE>>, <<<<"sub", "/", "cfg", ".json">>, TRUE>>,
              <<<<"cfg", ".txt">>, TRUE>>, <<<<"gone", ".json">>, FALSE>>}

MainDocs(file) == IF Parsed(file) THEN FileDocs(file) \cup SavedDocs ELSE {EmptyConfig}

(* What the user types at the prompts of an interactive run. *)
ManualEntries == {<<>>, <<[name |-> <<>>, url |-> <<>>, paths |-> << <<>> >>]>>}
(* collect_business_info: the business type chosen and the parameters     *)
(* collected for it                                                        *)
BusinessAnswers ==
    {[business_type |-> <<"generic">>, business_params |-> EmptyDict],
     [business_type |-> <<"insurance", "-", "policy">>,
      business_params |-> [policy_type |-> "auto"]]}
FeatureAnswers == {<<"key-auth">>, <<"rate-limiting", "acl">>, <<"jwt", "http-log">>}

Answers ==
    {[project |-> p, business_type |-> b["business_type"],
      business_params |-> b["business_params"], kong_features |-> f,
      limit |-> 60, endpoint |-> <<>>, entries |-> e] :
        p \in MainProjects, b \in BusinessAnswers,
        f \in FeatureAnswers, e \in ManualEntries}

(* The input stream as a call has read it when it was given k answers:     *)
(* `lines` is the number of answers it holds.                              *)
Read(answers, k) ==
    [x \in DOMAIN answers \cup {"lines"} |-> IF x = "lines" THEN k ELSE answers[x]]

(* What the provider does in an interactive run: it throws, or it returns  *)
(* one of these texts.                                                     *)
MainResponses == {<<>>, <<"1">>, <<"{", "}">>, <<"{", "k:", "1", "}">>}

(* main() of main.py ends: `except Exception` (lines 47-49) catches the    *)
(* exception and main() returns 1; KeyboardInterrupt is no Exception and   *)
(* leaves it.  main() of demo_generator.py has no handler, every exception *)
(* leaves it.  e is the exception.                                         *)
MainEnds(e) ==
    IF args["entry"] = "main.py" /\ e /= "KeyboardInterrupt"
    THEN mpc' = "returned" /\ exit_status' = 1
    ELSE mpc' = "escaped" /\ UNCHANGED exit_status

(* Lines 32-34 of main() in main.py: GroqAiModelClient() raises ValueError *)
(* when no API key is configured; the three constructions stand before the *)
(* try.  Lines 202-203 of main() in demo_generator.py:                     *)
(* DemoProjectGenerator.__init__ (lines 36-43) catches that ValueError and *)
(* goes on without a client.                                               *)
DoMainConstruct ==
    /\ mpc = "start"
    /\ IF args["api_key"] \/ args["entry"] = "demo_generator.py"
       THEN mpc' = "constructed" /\ err' = "none"
       ELSE mpc' = "escaped" /\ err' = "ValueError"
    /\ op' = "construct"
    /\ UNCHANGED <<config, keys, args, ret, streak, exit_status, project_name, written, run>>
    /\ UNCHANGED <<depVars, genVars>>

(* Lines 38-39 and 47-49 of main() in main.py, lines 206-207 in            *)
(* demo_generator.py: generate_from_config_file raises in load_from_file   *)
(* or in _generate_project_files.                                          *)
DoMainGenerateFromConfigFile(file, d, fs) ==
    /\ mpc = "constructed" /\ args["config"] /= <<>> /\ file[1] = args["config"]
    /\ \E rs \in ServiceDraws(d), rr \in RouteDraws(d) :
       \E l \in {LoadFromFile(config, file[1], file[2], FileContent(file[1], d), rs, rr)} :
          /\ config' = l.cfg
          /\ keys' = IF l.validated THEN DocKeys(FileContent(file[1], d)) ELSE keys
          /\ IF l.err /= "none"
             THEN err' = l.err /\ UNCHANGED written
             ELSE \E g \in {GenerateProjectFiles(
                                l.cfg, keys',
                                IF args["project"] /= <<>>
                                THEN args["project"] ELSE Stem(file[1]),
                                written, fs)} :
                     written' = g.file /\ err' = g.err
    /\ MainEnds(err')
    /\ op' = "generate_from_config_file"
    /\ UNCHANGED <<args, ret, streak, project_name, run>>
    /\ UNCHANGED <<depVars, genVars>>

----------------------------------------------------------------------------
(* An interactive call: generate_from_interactive_input                    *)
(* (src/demo_generator.py lines 45-82) or collect_all                      *)
(* (src/input_collector.py lines 321-342).  The call stands still where it *)
(* reads the input stream (input(), lines 58, 71, 87, 98, 277, 175, 181,   *)
(* 182, 294, 297, 222, 250) and where it asks the provider                 *)
(* (demo_generator.py line 59); a step takes it from one wait to the next  *)
(* or to its end.  At a prompt the stream gives the next answer or ends    *)
(* (EOFError); at either wait the user may interrupt (KeyboardInterrupt).  *)
(* run holds the call, what the user types, the configuration and key      *)
(* order the call started from, the prompts answered so far and the        *)
(* numbers random.randint returns in the transform (rt) and in             *)
(* collect_services (rc).                                                  *)

(* What the call has done to the configuration when the stream has given   *)
(* it k answers, the information prompts among them: err is "EOFError"     *)
(* when it asks for one more.                                              *)
RunPrefix(r, k, spec) ==
    IF r["call"] = "collect_all"
    THEN CollectAll(r["base"], Read(r["answers"], k), spec, r["rc"])
    ELSE InteractiveConfig(r["base"], Read(r["answers"], k), r["assume_kong_running"],
                           spec, r["rt"], r["rc"])

(* The insertion order of the keys of cfg, the configuration of the call.  *)
RunKeys(r, spec, cfg) ==
    AddedKeys(IF r["call"] /= "collect_all" /\ r["assume_kong_running"]
              THEN TransformKeys(r["order"], r["base"], spec,
                                 r["answers"]["kong_features"], r["rt"])
              ELSE r["order"],
              cfg)

(* The end of the call as the entry point sees it: main() ends with the    *)
(* exception, a caller that holds the generator gets it.                   *)
CallEnds(e) ==
    IF mpc = "none" THEN UNCHANGED <<mpc, exit_status>> ELSE MainEnds(e)

(* The call r runs on from the point where it has k answers and c is what  *)
(* it has done by then: it waits at the next prompt, or it ends, by an     *)
(* exception of the collection or, for generate_from_interactive_input,    *)
(* in _generate_project_files (line 80).                                   *)
RunOn(r, k, c, spec) ==
    /\ config' = c.cfg
    /\ keys' = RunKeys(r, spec, c.cfg)
    /\ IF c.err = "EOFError"
       THEN /\ run' = [r EXCEPT !["used"] = k, !["at"] = "prompt"]
            /\ UNCHANGED <<err, written, mpc, exit_status>>
       ELSE /\ run' = NoRun
            /\ IF c.err /= "none" \/ r["call"] = "collect_all"
               THEN err' = c.err /\ UNCHANGED written
               ELSE \E fs \in FsOutcomes :
                    \E f \in {GenerateProjectFiles(c.cfg, keys', r["answers"]["project"],
                                                   written, fs)} :
                       written' = f.file /\ err' = f.err
            /\ CallEnds(err')

(* The call starts and waits at its first prompt, "Project name: "         *)
(* (collect_project_info, line 58).                                        *)
StartRun(call, answers, assume_kong_running, rc) ==
    /\ run["at"] = "none"
    /\ run' = [at |-> "prompt", call |-> call, answers |-> answers,
               assume_kong_running |-> assume_kong_running,
               base |-> config, order |-> keys, used |-> 0, rt |-> <<>>, rc |-> rc]
    /\ op' = call
    /\ UNCHANGED <<config, keys, ret, err, streak, mpc, exit_status, project_name, written>>
    /\ UNCHANGED <<depVars, genVars>>

(* Lines 40-41 of main() in main.py, lines 208-209 in demo_generator.py:   *)
(* generate_from_interactive_input is called, with assume_kong_running     *)
(* False from main.py.                                                     *)
DoMainGenerateInteractive(answers) ==
    /\ mpc = "constructed" /\ args["config"] = <<>>
    /\ StartRun("generate_from_interactive_input", answers,
                args["assume_kong_running"], <<>>)
    /\ UNCHANGED args

(* The stream gives the answer to the prompt the call waits at.  After the *)
(* last information prompt (collect_kong_features, line 277)               *)
(* generate_from_interactive_input asks the provider, with the business    *)
(* type and the features it collected; before it nothing but the           *)
(* collector's own fields changes; after it collect_services and           *)
(* collect_plugins change the configuration up to the next prompt.         *)
DoAnswer ==
    /\ run["at"] = "prompt"
    /\ LET k == run["used"] + 1
           info == InfoPrompts(run["answers"]["business_type"])
       IN  IF k < info
           THEN /\ run' = [run EXCEPT !["used"] = k]
                /\ UNCHANGED <<config, keys, err, written, mpc, exit_status>>
                /\ UNCHANGED genVars
           ELSE IF k = info /\ run["call"] = "generate_from_interactive_input"
           THEN /\ run' = [run EXCEPT !["used"] = k, !["at"] = "provider"]
                /\ business_type' = run["answers"]["business_type"]
                /\ features' = run["answers"]["kong_features"]
                /\ UNCHANGED <<provider, response, specification, stage>>
                /\ UNCHANGED <<config, keys, err, written, mpc, exit_status>>
           ELSE /\ \E c \in {RunPrefix(run, k, specification)} :
                      RunOn(run, k, c, specification)
                /\ UNCHANGED genVars
    /\ UNCHANGED <<op, args, ret, streak, project_name>>
    /\ UNCHANGED depVars

(* generate_api_specification (line 59) ends: the provider threw or        *)
(* returned resp, or there is no client.  set_api_specification, the       *)
(* transform when assume_kong_running is set, collect_services and         *)
(* collect_plugins follow, up to the next prompt.  A generator built by    *)
(* main() has a client exactly when an API key is configured.              *)
DoProvider(prov, resp) ==
    /\ run["at"] = "provider"
    /\ mpc /= "none" => (prov = "absent" <=> ~args["api_key"])
    /\ \E g \in {GenerateApiSpecification(business_type, features, prov, resp)} :
          /\ provider' = prov /\ response' = resp
          /\ specification' = g.spec /\ stage' = g.stage
          /\ \E rt \in IF run["assume_kong_running"]
                       THEN TransformDraws(g.spec) ELSE {<<>>},
                rc \in TransformDraws(g.spec) :
             \E r \in {[run EXCEPT !["rt"] = rt, !["rc"] = rc]} :
             \E c \in {RunPrefix(r, r["used"], g.spec)} :
                RunOn(r, r["used"], c, g.spec)
    /\ UNCHANGED <<business_type, features>>
    /\ UNCHANGED <<op, args, ret, streak, project_name>>
    /\ UNCHANGED depVars

(* The stream has ended at the prompt the call waits at: input() raises    *)
(* EOFError, which no collector function catches.                          *)
DoEndOfInput ==
    /\ run["at"] = "prompt"
    /\ err' = "EOFError" /\ run' = NoRun
    /\ CallEnds("EOFError")
    /\ UNCHANGED <<config, keys, op, args, ret, streak, project_name, written>>
    /\ UNCHANGED <<depVars, genVars>>

(* The user interrupts the call at a wait: KeyboardInterrupt is raised     *)
(* there; no handler of the collector, of the specification generator or   *)
(* of the client catches it.                                               *)
DoInterrupt ==
    /\ run["at"] \in {"prompt", "provider"}
    /\ err' = "KeyboardInterrupt" /\ run' = NoRun
    /\ CallEnds("KeyboardInterrupt")
    /\ UNCHANGED <<config, keys, op, args, ret, streak, project_name, written>>
    /\ UNCHANGED <<depVars, genVars>>

InitMain ==
    /\ config = EmptyConfig /\ op = "init" /\ args \in MainArgs
    /\ keys = FreshKeys
    /\ ret = <<>> /\ err = "none" /\ streak = 0
    /\ DeployIdle /\ GeneratorIdle
    /\ mpc = "start" /\ exit_status = -1 /\ project_name = <<>> /\ written = NoFile
    /\ run = NoRun

NextMain ==
    \/ DoMainConstruct
    \/ \E file \in MainFiles : \E d \in MainDocs(file) : \E fs \in FsOutcomes :
          DoMainGenerateFromConfigFile(file, d, fs)
    \/ \E answers \in Answers : DoMainGenerateInteractive(answers)
    \/ DoAnswer
    \/ \E prov \in Providers : \E resp \in MainResponses : DoProvider(prov, resp)
    \/ DoEndOfInput
    \/ DoInterrupt

SpecMain == InitMain /\ [][NextMain]_vars

----------------------------------------------------------------------------
(* DemoProjectGenerator.generate_from_interactive_input and the            *)
(* collector's collect_all() called on the objects directly.               *)

DoGenerateFromInteractiveInput(assume_kong_running, answers) ==
    /\ op = "init"
    /\ StartRun("generate_from_interactive_input", answers, assume_kong_running, <<>>)
    /\ args' = <<assume_kong_running>>

(* UserInputCollector.collect_all() called on the generator's collector:   *)
(* it prompts, changes the configuration and returns; no specification is  *)
(* asked for and no file is written.  `specification` is what              *)
(* set_api_specification last stored in the collector.                     *)
DoCollectAll(answers) ==
    /\ op = "init"
    /\ \E rs \in TransformDraws(specification) :
          StartRun("collect_all", answers, FALSE, rs)
    /\ UNCHANGED args

NextInteractive ==
    \/ \E assume_kong_running \in BOOLEAN, answers \in Answers :
          DoGenerateFromInteractiveInput(assume_kong_running, answers)
    \/ \E answers \in Answers : DoCollectAll(answers)
    \/ DoAnswer
    \/ \E prov \in Providers : \E resp \in MainResponses : DoProvider(prov, resp)
    \/ DoEndOfInput
    \/ DoInterrupt

SpecInteractive == Init /\ [][NextInteractive]_vars

----------------------------------------------------------------------------
(* DemoProjectGenerator.deploy_to_kong called on a generator, as the       *)
(* deploy route of web_app.py does: the project's kong-config.json was     *)
(* written by an earlier run or supplied from outside.                     *)

(* deploy_to_kong, lines 170-176: with a project name the configuration is *)
(* reloaded from the project's kong-config.json; deploy_configuration then *)
(* starts.                                                                 *)
DoDeployToKong(project) ==
    /\ op = "init" /\ pc = "idle"
    /\ \E rs \in ServiceDraws(ParseDoc(written["content"])),
          rr \in RouteDraws(ParseDoc(written["content"])) :
       \E l \in {IF project /= <<>>
                 THEN LoadFromFile(config, ProjectConfigFile(project),
                                   written["exists"] /\ written["project"] = project,
                                   written["content"], rs, rr)
                 ELSE [cfg |-> config, err |-> "none", validated |-> FALSE]} :
              /\ config' = l.cfg /\ err' = l.err
              /\ keys' = IF l.validated THEN DocKeys(written["content"]) ELSE keys
              /\ IF l.err /= "none"
                 THEN UNCHANGED depVars
                 ELSE /\ results' = NoResults
                      /\ Goto(NextPos(l.cfg, "services", 1))
                      /\ UNCHANGED <<calls, lastStatus, failAt, derr>>
    /\ project_name' = project
    /\ op' = "deploy_to_kong"
    /\ UNCHANGED <<args, ret, streak, mpc, exit_status, written, run>>
    /\ UNCHANGED genVars

(* The kong-config.json files of the project "demo": none, a document     *)
(* supplied from outside, or the file an earlier run wrote from a          *)
(* configuration with an auth feature.                                     *)
ProjectFiles ==
    {NoFile}
    \cup {[exists |-> TRUE, project |-> <<"demo">>, content |-> ToJson(d, FreshKeys)] :
             d \in Docs}
    \cup {[exists |-> TRUE, project |-> <<"demo">>,
           content |-> ToJson(AddFeature(base, f),
                              AddedKeys(FreshKeys, AddFeature(base, f)))] :
             base \in TransformConfigs, f \in {"key-auth", "jwt"}}

InitDeployToKong ==
    /\ config \in TransformConfigs
    /\ keys = AddedKeys(FreshKeys, config)
    /\ op = "init" /\ args = <<>> /\ ret = <<>> /\ err = "none" /\ streak = 0
    /\ DeployIdle /\ GeneratorIdle
    /\ mpc = "none" /\ exit_status = -1 /\ project_name = <<>> /\ run = NoRun
    /\ written \in ProjectFiles

NextDeployToKong ==
    \/ \E project \in MainProjects : DoDeployToKong(project)
    \/ \E st \in Statuses : DoCreateService(st)
    \/ \E st \in Statuses : DoCreateRoute(st)
    \/ \E st \in Statuses : DoCreatePlugin(st)
    \/ \E st \in Statuses : DoCreateConsumer(st)
    \/ \E st \in Statuses : DoAddConsumerAuthKey(st)
    \/ DoAddConsumerAuthOther

SpecDeployToKong == InitDeployToKong /\ [][NextDeployToKong]_vars

----------------------------------------------------------------------------
(* The declarative export, applied to configurations whose consumers were  *)
(* added by add_consumer calls.                                            *)

MaxExportConsumers == 3   \* consumers of an exported configuration

ExportConsumerInputs == ConsumerInputs \cup {<<<<"bob">>, "key-auth">>}

(* add_consumer for each entry of cs, from the k-th on *)
RECURSIVE AddConsumers(_, _, _)
AddConsumers(cfg, cs, k) ==
    IF k > Len(cs) THEN cfg
    ELSE AddConsumers(AddConsumer(cfg, cs[k][1], cs[k][2]), cs, k + 1)

DoToDeclarativeConfig ==
    /\ op = "init"
    /\ ret' = ToDeclarativeConfig(config)
    /\ op' = "to_declarative_config"
    /\ UNCHANGED <<config, keys, args, err, streak>>
    /\ UNCHANGED <<depVars, genVars, mainVars>>

InitExport ==
    /\ \E base \in TransformConfigs :
       \E cs \in SeqsUpTo(ExportConsumerInputs, MaxExportConsumers) :
          config = AddConsumers(base, cs, 1)
    /\ op = "init" /\ args = <<>> /\ ret = <<>> /\ err = "none" /\ streak = 0
    /\ keys = AddedKeys(FreshKeys, config)
    /\ DeployIdle /\ GeneratorIdle /\ MainIdle

NextExport == DoToDeclarativeConfig

SpecExport == InitExport /\ [][NextExport]_vars

----------------------------------------------------------------------------
(* Properties of the configuration model, checked under Spec.              *)

ValidatingOps ==
    {"validate", "load_from_json", "load_from_yaml", "roundtrip_json", "roundtrip_yaml",
     "load_from_file"}
RoundTripOps == {"roundtrip_json", "roundtrip_yaml"}
LoadOps == {"load_from_json", "load_from_yaml"}

Resolved(cfg) ==
    \A j \in 1..Len(cfg["routes"]) :
        \E i \in 1..Len(cfg["services"]) :
            cfg["services"][i]["name"] = cfg["routes"][j]["service_name"]

IsDefaultName(name) == Len(name) = 2 /\ name[1] = "default_service_"

(* C1: whenever validate() has returned (called directly or by a bulk      *)
(* load), every route's service_name is the name of some service.          *)
C1_RoutesResolveAfterValidate ==
    (op \in ValidatingOps /\ err = "none") => Resolved(config)

(* C1 witness: validate() returned on a model with a route whose reference *)
(* it had to repair by creating a default service.                         *)
C1_Witness ==
    /\ op = "validate" /\ err = "none" /\ streak = 1
    /\ Len(config["routes"]) >= 1
    /\ config["routes"][1]["name"] = <<"a", "-", "route", "-", "1">>
    /\ IsDefaultName(config["routes"][1]["service_name"])

(* C2: no two services of the configuration have the same name.            *)
C2_ServiceNamesUnique ==
    err = "none" =>
        \A i, j \in 1..Len(config["services"]) :
            i /= j => config["services"][i]["name"] /= config["services"][j]["name"]

(* C3: no stored service name contains a hyphen or an upper-case letter;   *)
(* the name add_service stores (and returns) for a non-empty name is that  *)
(* name with each hyphen replaced by an underscore and each upper-case     *)
(* letter by its lower-case letter.                                        *)
C3_StoredNamesNormalized ==
    err = "none" =>
        /\ \A i \in 1..Len(config["services"]) :
              \A k \in 1..Len(config["services"][i]["name"]) :
                  /\ config["services"][i]["name"][k] /= "-"
                  /\ config["services"][i]["name"][k] \notin Upper
        /\ op = "add_service" =>
              /\ config["services"][Len(config["services"])]["name"] = ret
              /\ args[1] /= <<>> =>
                    /\ Len(ret) = Len(args[1])
                    /\ \A k \in 1..Len(ret) :
                          ret[k] = IF args[1][k] = "-" THEN "_"
                                   ELSE IF args[1][k] = "A" THEN "a"
                                   ELSE IF args[1][k] = "B" THEN "b"
                                   ELSE args[1][k]

(* C3 witness: add_service was given "A-b" and stored "a_b".               *)
C3_Witness ==
    /\ op = "add_service" /\ args[1] = <<"A", "-", "b">> /\ ret = <<"a", "_", "b">>
    /\ config["services"][Len(config["services"])]["name"] = <<"a", "_", "b">>

(* C4: a validate() that follows a validate() (direct or by a bulk load)   *)
(* with no mutation in between returns and changes nothing.                *)
C4_ValidateIdempotent ==
    [][(streak >= 1 /\ err = "none" /\ op' = "validate")
          => (config' = config /\ err' = "none")]_vars

(* C4 witness: validate() ran twice in succession on a model whose route   *)
(* the first run had repaired.                                             *)
C4_Witness ==
    /\ op = "validate" /\ streak = 2 /\ err = "none"
    /\ Len(config["routes"]) >= 1
    /\ IsDefaultName(config["routes"][1]["service_name"])

(* C5 as stated: a round trip through a persisted format leaves the        *)
(* declarative export as it was, for every configuration.                  *)
C5_RoundTripAnyConfig ==
    [][op' \in RoundTripOps
          => (err' = "none"
              /\ ToDeclarativeConfig(config') = ToDeclarativeConfig(config))]_vars

(* C5 amended: the round trip leaves the declarative export as it was for  *)
(* every configuration in which every route's service_name is the name of  *)
(* a stored service.                                                       *)
C5_RoundTripResolvedConfig ==
    [][(op' \in RoundTripOps /\ Resolved(config))
          => (err' = "none"
              /\ ToDeclarativeConfig(config') = ToDeclarativeConfig(config))]_vars

(* C5 witness: a round trip of a configuration with a service and a route  *)
(* bound to it.                                                            *)
C5_Witness ==
    /\ op \in RoundTripOps /\ err = "none"
    /\ Len(config["services"]) = 1 /\ Len(config["routes"]) = 1
    /\ config["services"][1]["name"] = <<"a">>
    /\ config["routes"][1]["service_name"] = <<"a">>
    /\ config["routes"][1]["name"] = <<"a", "-", "route", "-", "1">>

(* C10: a bulk load of a parsed document never raises.                     *)
C10_LoadNeverRaises ==
    op \in LoadOps => err = "none"

SupportedSuffixes == {".json", ".yaml", ".yml"}

(* C11: load_from_file on a path whose suffix is not .json, .yaml or .yml  *)
(* raises, and leaves the configuration as it was: the model is not        *)
(* replaced and validate() is not run.                                     *)
C11_BadSuffixRaisesAndKeeps ==
    [][(op' = "load_from_file" /\ args'[1][Len(args'[1])] \notin SupportedSuffixes)
          => /\ err' \in {"ValueError", "FileNotFoundError"}
             /\ config' = config
             /\ streak' = streak]_vars

(* C11 witness: load_from_file of an existing .txt file raised ValueError  *)
(* on a model that holds a service and was never validated.                *)
C11_Witness ==
    /\ op = "load_from_file" /\ args = << <<"cfg", ".txt">> >> /\ err = "ValueError"
    /\ Len(config["services"]) >= 1 /\ streak = 0

(* C18: add_service("", url) returns default_service_ followed by four     *)
(* digits, and after the call that name is the name of exactly one         *)
(* service.                                                                *)
C18_DefaultNameExactlyOnce ==
    (op = "add_service" /\ args[1] = <<>>) =>
        /\ \E r \in 1000..9999 : ret = DefaultName(r)
        /\ Cardinality({i \in 1..Len(config["services"]) :
                           config["services"][i]["name"] = ret}) = 1

(* C21: add_route called without a name stores and returns the name       *)
(* {service}-route-{n}: service is the service name stored in the new      *)
(* route, which holds no hyphen and no upper-case letter, and n is one     *)
(* more than the number of the earlier routes bound to that service.       *)
C21_SynthesizedRouteName ==
    (op = "add_route" /\ args[3] = <<>>) =>
        LET routes == config["routes"]
            new == routes[Len(routes)]
            bound == {j \in 1..(Len(routes) - 1) :
                         routes[j]["service_name"] = new["service_name"]}
        IN  /\ ret = new["name"]
            /\ \A k \in 1..Len(new["service_name"]) :
                  new["service_name"][k] /= "-" /\ new["service_name"][k] \notin Upper
            /\ args[1] /= <<>> =>
                  /\ Len(new["service_name"]) = Len(args[1])
                  /\ \A k \in 1..Len(args[1]) :
                        new["service_name"][k] = IF args[1][k] = "-" THEN "_"
                                                 ELSE IF args[1][k] = "A" THEN "a"
                                                 ELSE IF args[1][k] = "B" THEN "b"
                                                 ELSE args[1][k]
            /\ Len(ret) = Len(new["service_name"]) + 4
            /\ SubSeq(ret, 1, Len(new["service_name"])) = new["service_name"]
            /\ SubSeq(ret, Len(new["service_name"]) + 1, Len(ret))
                  = <<"-", "route", "-", ToString(Cardinality(bound) + 1)>>

(* C21 witness: add_route("A-b", paths) without a name returned            *)
(* a_b-route-1 on a model that already held a route of another service.    *)
C21_Witness ==
    /\ op = "add_route" /\ args[1] = <<"A", "-", "b">> /\ args[3] = <<>>
    /\ Len(config["routes"]) = 2
    /\ config["routes"][1]["service_name"] /= <<"a", "_", "b">>
    /\ ret = <<"a", "_", "b", "-", "route", "-", "1">>

(* C25: validate() on a configuration with no service and M >= 1 routes    *)
(* synthesizes exactly one default service: the service list has length 1  *)
(* afterwards.  The code creates one default service per route, because    *)
(* the list service_names of line 97 is not refreshed inside the loop.     *)
C25_OneDefaultServiceForAllRoutes ==
    [][(/\ op' = "validate" /\ err' = "none"
        /\ config["services"] = <<>> /\ Len(config["routes"]) >= 1)
       => (/\ Len(config'["services"]) = 1
           /\ \A j \in 1..Len(config'["routes"]) :
                 config'["routes"][j]["service_name"] = config'["services"][1]["name"])]_vars

(* The plugins whose name is one of the four auth kinds, by position. *)
AuthPositions(cfg) ==
    {i \in 1..Len(cfg["plugins"]) :
        cfg["plugins"][i]["name"] \in {"key-auth", "jwt", "oauth2", "basic-auth"}}

(* C24: the cached auth plugin is the plugin added last among those named  *)
(* key-auth, jwt, oauth2 or basic-auth, and is absent when no such plugin  *)
(* was added; so adding any other plugin leaves the cache as it was.       *)
C24_AuthPluginIsLastAuthAdded ==
    err = "none" =>
        LET auth == AuthPositions(config)
        IN  IF auth = {}
            THEN "auth_plugin" \notin DOMAIN config
            ELSE /\ "auth_plugin" \in DOMAIN config
                 /\ config["auth_plugin"]
                       = config["plugins"][CHOOSE i \in auth : \A j \in auth : j <= i]

(* C24 witness: add_plugin("rate-limiting") was called after               *)
(* add_plugin("key-auth") and the cache still holds the key-auth plugin.   *)
C24_Witness ==
    /\ op = "add_plugin" /\ Len(config["plugins"]) = 2
    /\ config["plugins"][1]["name"] = "key-auth"
    /\ config["plugins"][2]["name"] = "rate-limiting"
    /\ config["auth_plugin"] = [name |-> "key-auth"]

----------------------------------------------------------------------------
(* Properties of route naming, checked under SpecRoutes.                   *)

(* C26: in every state reached by add_service, add_route without an        *)
(* explicit name, and validate(), the route names are pairwise distinct.   *)
(* validate() rebinds a route and leaves its name, so the count add_route  *)
(* takes for the next route of the old service starts again.               *)
C26_RouteNamesDistinct ==
    \A i, j \in 1..Len(config["routes"]) :
        i /= j => config["routes"][i]["name"] /= config["routes"][j]["name"]

----------------------------------------------------------------------------
(* Properties of validate() on a loaded document, checked under            *)
(* SpecValidate.                                                           *)

(* C29: validate() keeps a route bound to the service whose name equals    *)
(* the route's normalized service_name when there is such a service; it    *)
(* rebinds only when no service matches after normalization.  The code     *)
(* tests the reference as written against the normalized service names     *)
(* (line 99) and normalizes it afterwards (line 108).                      *)
C29_RouteKeepsMatchingService ==
    [][(op' = "validate" /\ err' = "none") =>
          \A j \in 1..Len(config["routes"]) :
             LET n == Normalize(config["routes"][j]["service_name"])
             IN  (\E i \in 1..Len(config'["services"]) :
                     config'["services"][i]["name"] = n)
                 => config'["routes"][j]["service_name"] = n]_vars

----------------------------------------------------------------------------
(* Properties of the declarative export, checked under SpecExport.         *)

(* The consumers whose auth_type is key-auth, by position. *)
KeyAuthPositions(cfg) ==
    {c \in 1..Len(cfg["consumers"]) :
        /\ "auth_type" \in DOMAIN cfg["consumers"][c]
        /\ cfg["consumers"][c]["auth_type"] = "key-auth"}

(* C23: the declarative export holds one keyauth_credentials entry for     *)
(* each consumer whose auth_type is key-auth, in consumer order, each      *)
(* referencing that consumer's username, and none for any other consumer;  *)
(* the list is absent when no consumer has auth_type key-auth.             *)
C23_CredentialsOnlyForKeyAuth ==
    op = "to_declarative_config" =>
        LET ks == KeyAuthPositions(config)
        IN  IF ks = {}
            THEN "keyauth_credentials" \notin DOMAIN ret
            ELSE /\ "keyauth_credentials" \in DOMAIN ret
                 /\ Len(ret["keyauth_credentials"]) = Cardinality(ks)
                 /\ \A c \in ks :
                       ret["keyauth_credentials"][Cardinality({k \in ks : k <= c})]
                             ["consumer"]["username"]
                          = config["consumers"][c]["username"]

(* C23 witness: the export of a configuration whose consumers are bob      *)
(* (jwt), demo-user (key-auth) and bob (key-auth) holds two credentials.   *)
C23_Witness ==
    /\ op = "to_declarative_config"
    /\ Len(config["consumers"]) = 3
    /\ config["consumers"][1] = [username |-> <<"bob">>, auth_type |-> "jwt"]
    /\ config["consumers"][2]["username"] = <<"demo-user">>
    /\ KeyAuthPositions(config) = {2, 3}
    /\ Len(ret["keyauth_credentials"]) = 2
    /\ ret["keyauth_credentials"][2]["consumer"]["username"] = <<"bob">>

----------------------------------------------------------------------------
(* Properties of deploy_configuration, checked under SpecDeploy.           *)

CallKey(c) == <<c.kind, c.data.name>>

IsCreation(c) == c.kind /= "add_consumer_auth"

(* The creation requests a complete deploy of cfg issues, in order. *)
ExpectedCreations(cfg) ==
    [i \in 1..Len(cfg["services"]) |-> <<"create_service", cfg["services"][i]["name"]>>]
    \o [i \in 1..Len(cfg["routes"]) |-> <<"create_route", cfg["routes"][i]["name"]>>]
    \o [i \in 1..Len(cfg["plugins"]) |-> <<"create_plugin", cfg["plugins"][i]["name"]>>]
    \o [i \in 1..Len(cfg["consumers"]) |->
           <<"create_consumer", cfg["consumers"][i]["username"]>>]

(* C6: the creation requests observed so far are a prefix of: every        *)
(* service, then every route, then every plugin, then every consumer, each *)
(* in the order of its configuration list; a deploy that returns has       *)
(* issued them all.                                                        *)
C6_PhaseOrder ==
    LET cs == SelectSeq(calls, IsCreation)
        ex == ExpectedCreations(config)
    IN  /\ Len(cs) <= Len(ex)
        /\ \A i \in 1..Len(cs) : CallKey(cs[i]) = ex[i]
        /\ pc = "done" => Len(cs) = Len(ex)

(* C6 witness: a deploy returned for a configuration with a service, a     *)
(* route, a plugin and a consumer.                                         *)
C6_Witness ==
    /\ pc = "done"
    /\ Len(config["services"]) >= 1 /\ Len(config["routes"]) >= 1
    /\ Len(config["plugins"]) >= 1 /\ Len(config["consumers"]) >= 1

(* C7: once the remote interface has failed a request (answered it with a  *)
(* non-2xx status), that request is the last one observed and the deploy   *)
(* has raised.                                                             *)
C7_AbortAtFailure ==
    failAt /= 0 =>
        /\ pc = "raised"
        /\ derr.type = "Exception"
        /\ Len(calls) = failAt

(* C7 witness: the second of at least three requests failed.               *)
C7_Witness ==
    /\ failAt = 2 /\ pc = "raised"
    /\ Len(ExpectedCreations(config)) >= 3

ConsumerIndexAt(p) == Cardinality({q \in 1..p : calls[q].kind = "create_consumer"})

(* C8: the creation of a consumer whose auth_type is present and not       *)
(* "none" is followed at once by a credential request of that type for     *)
(* that consumer.                                                          *)
C8_CredentialCallFollows ==
    \A p \in 1..Len(calls) :
        (calls[p].kind = "create_consumer" /\ (p < Len(calls) \/ pc = "done")) =>
            LET c == config["consumers"][ConsumerIndexAt(p)]
            IN  ("auth_type" \in DOMAIN c /\ c["auth_type"] /= "none") =>
                    /\ p < Len(calls)
                    /\ calls[p + 1].kind = "add_consumer_auth"
                    /\ calls[p + 1].url =
                          <<"/consumers/">> \o c["username"] \o <<"/", c["auth_type"]>>

CarriesBody(e, status) ==
    /\ e.type = "Exception"
    /\ Len(e.text) = 5
    /\ SubSeq(e.text, 4, 5) = ResponseText(status)

(* C9 as stated: the response to the last request let the deploy go on     *)
(* exactly when its status is 2xx; otherwise the deploy raised an error    *)
(* carrying the response body.                                             *)
C9_SuccessIsAny2xx ==
    calls /= <<>> =>
        IF lastStatus \in 200..299
        THEN derr.type /= "Exception"
        ELSE pc = "raised" /\ CarriesBody(derr, lastStatus)

(* C9 amended: the response to the last request let the deploy go on       *)
(* exactly when its status is 200 or 201; every other status, the other    *)
(* 2xx included, made the deploy raise an error carrying the response      *)
(* body.                                                                   *)
C9_SuccessIs200Or201 ==
    calls /= <<>> =>
        IF lastStatus \in {200, 201}
        THEN derr.type /= "Exception"
        ELSE pc = "raised" /\ CarriesBody(derr, lastStatus)

(* C9 witness: a request was accepted and the next one was answered 204.   *)
C9_Witness ==
    /\ Len(calls) >= 2 /\ lastStatus = 204 /\ pc = "raised"
    /\ CarriesBody(derr, 204)

----------------------------------------------------------------------------
(* Properties of the specification extraction, checked under SpecExtract.  *)

Generated == op = "generate_api_specification"

(* C12: for every response text the extraction returns without raising,    *)
(* and what it returns is a specification object (a mapping).              *)
C12_ResultIsSpecificationObject ==
    (Generated /\ provider = "returns") =>
        /\ err = "none"
        /\ "object" \in DOMAIN specification

FenceCount(resp) == Cardinality({p \in 1..Len(resp) : resp[p] = "fence"})

(* The position of the n-th fence of resp *)
NthFence(resp, n) ==
    CHOOSE p \in 1..Len(resp) :
        /\ resp[p] = "fence"
        /\ Cardinality({q \in 1..p : resp[q] = "fence"}) = n

(* The content of the n-th fenced block: what stands between the fences    *)
(* 2n-1 and 2n, without the json tag that may follow the opening fence.    *)
BlockContent(resp, n) ==
    LET block == SubSeq(resp, NthFence(resp, 2 * n - 1) + 1, NthFence(resp, 2 * n) - 1)
    IN  IF block /= <<>> /\ block[1] = "json" THEN Tail(block) ELSE block

(* The fenced blocks in order of appearance *)
FencedBlocks(resp) == [n \in 1..(FenceCount(resp) \div 2) |-> BlockContent(resp, n)]

(* The outermost brace-delimited substring: from the first opening brace   *)
(* to the last closing brace.                                              *)
OutermostBraces(resp) ==
    LET opening == {p \in 1..Len(resp) : resp[p] = "{"}
        closing == {p \in 1..Len(resp) : resp[p] = "}"}
    IN  IF opening = {} \/ closing = {} THEN <<>>
        ELSE LET a == CHOOSE p \in opening : \A q \in opening : p <= q
                 b == CHOOSE p \in closing : \A q \in closing : q <= p
             IN  IF b > a THEN <<SubSeq(resp, a, b)>> ELSE <<>>

(* The texts the extraction tries to parse, in the order the claim gives:  *)
(* the whole response, the fenced blocks, the outermost braces.            *)
Attempts(resp) == <<resp>> \o FencedBlocks(resp) \o OutermostBraces(resp)

StageOf(resp, k) ==
    IF k = 1 THEN "whole"
    ELSE IF k <= 1 + Len(FencedBlocks(resp)) THEN "fenced"
    ELSE "brace"

(* C13: the result is the parsed form of the first attempt that parses,    *)
(* in the order whole response, fenced blocks in order of appearance,      *)
(* outermost braces; the template is returned only when no attempt         *)
(* parses.  A response with a single fenced block whose content is valid   *)
(* yields the parsed form of that content.                                 *)
C13_FirstSuccessWins ==
    (Generated /\ provider = "returns") =>
        LET at == Attempts(response)
            parsing == {k \in 1..Len(at) : JsonLoads(Strip(at[k])).ok}
        IN  /\ IF parsing = {}
               THEN stage = "template"
               ELSE LET first == CHOOSE k \in parsing : \A m \in parsing : k <= m
                    IN  /\ specification = JsonLoads(Strip(at[first])).val
                        /\ stage = StageOf(response, first)
            /\ \A i, j \in 1..Len(response) :
                  (/\ i < j /\ response[i] = "fence" /\ response[j] = "fence"
                   /\ FenceCount(response) = 2) =>
                      LET block == SubSeq(response, i + 1, j - 1)
                          content == IF block /= <<>> /\ block[1] = "json"
                                     THEN Tail(block) ELSE block
                      IN  JsonLoads(content).ok =>
                              specification = JsonLoads(content).val

(* C13 witness: the response holds three fenced blocks; the first does not *)
(* parse, the second and the third hold different objects; the extraction  *)
(* returned the object of the second block from the fenced stage.          *)
C13_Witness ==
    /\ Generated /\ provider = "returns"
    /\ response = <<"fence", "k:", "fence",
                    "fence", "json", "{", "k:", "1", "}", "fence",
                    "fence", "{", "}", "fence">>
    /\ stage = "fenced"
    /\ specification = [object |-> [x \in {"k"} |-> [number |-> 1]]]

(* The template the claim assigns to a business type. *)
TemplateOf(btype) ==
    LET words == {btype[i] : i \in 1..Len(btype)}
    IN  IF "insurance" \in words THEN InsuranceTemplate(<<>>)
        ELSE IF "ecommerce" \in words THEN EcommerceTemplate(<<>>)
        ELSE GenericTemplate(<<>>)

(* C14: when no attempt parses, the result is the hardcoded template of    *)
(* the business type, whatever the response text and the requested         *)
(* feature list are.                                                       *)
C14_FallbackIsTemplateOfType ==
    (Generated /\ provider = "returns"
       /\ \A k \in 1..Len(Attempts(response)) :
             ~JsonLoads(Strip(Attempts(response)[k])).ok) =>
        /\ err = "none"
        /\ specification = TemplateOf(business_type)

(* C14 witness: nothing of the response parses, features were requested,   *)
(* and the insurance template came back.                                   *)
C14_Witness ==
    /\ Generated /\ provider = "returns" /\ stage = "template"
    /\ response = <<"{", "1">>
    /\ features = <<"key-auth", "rate-limiting">>
    /\ business_type = <<"insurance">>
    /\ specification = InsuranceTemplate(<<>>)

(* C15: when the provider call throws, generate_api_specification returns  *)
(* (raises nothing), and returns the template of the business type, the    *)
(* one it returns when no client is configured.                            *)
C15_ProviderFailureFallsBack ==
    (Generated /\ provider = "throws") =>
        /\ err = "none"
        /\ specification = TemplateOf(business_type)
        /\ specification =
              GenerateApiSpecification(business_type, features, "absent", <<>>).spec

(* C15 witness: the provider threw and the ecommerce template came back.   *)
C15_Witness ==
    /\ Generated /\ provider = "throws" /\ err = "none"
    /\ business_type = <<"ecommerce">>
    /\ specification = EcommerceTemplate(<<>>)

----------------------------------------------------------------------------
(* Properties of the transform, checked under SpecTransform.               *)

Transformed == op = "generate_kong_config"

PluginsNamed(cfg, name) ==
    {i \in 1..Len(cfg["plugins"]) : cfg["plugins"][i]["name"] = name}

(* C16: the transform of the feature list [key-auth, rate-limiting] on an  *)
(* empty configuration and an empty specification yields exactly one       *)
(* key-auth plugin, exactly one consumer demo-user with auth_type          *)
(* key-auth, exactly one rate-limiting plugin with config                  *)
(* {minute: 60, policy: local}, and no other plugin or consumer.           *)
C16_KeyAuthAndRateLimiting ==
    [][(/\ Transformed'
        /\ config = EmptyConfig
        /\ specification = [object |-> <<>>]
        /\ features = <<"key-auth", "rate-limiting">>)
          => /\ err' = "none"
             /\ Len(config'["plugins"]) = 2
             /\ Cardinality(PluginsNamed(config', "key-auth")) = 1
             /\ \E i \in PluginsNamed(config', "rate-limiting") :
                   config'["plugins"][i] =
                      [name |-> "rate-limiting",
                       config |-> [minute |-> 60, policy |-> "local"]]
             /\ config'["consumers"] =
                   <<[username |-> <<"demo-user">>, auth_type |-> "key-auth"]>>
             /\ config'["services"] = <<>> /\ config'["routes"] = <<>>]_vars

(* C16 witness: the transform ran with that feature list on the empty      *)
(* specification and left a configuration without services.                *)
C16_Witness ==
    /\ Transformed /\ err = "none"
    /\ features = <<"key-auth", "rate-limiting">>
    /\ specification = [object |-> <<>>]
    /\ config["services"] = <<>>
    /\ Len(config["plugins"]) = 2 /\ Len(config["consumers"]) = 1

RoutesOf(service_spec) ==
    IF "routes" \in DOMAIN service_spec THEN Len(service_spec["routes"]) ELSE 0

(* C17: the transform of a specification with two services, the second     *)
(* with an empty name, on an empty configuration yields two services with  *)
(* distinct normalised names, the second synthesized, and binds every      *)
(* route to the stored name of the service it was specified under.         *)
C17_TwoServicesSecondUnnamed ==
    (/\ Transformed /\ err = "none"
     /\ "object" \in DOMAIN specification
     /\ "services" \in DOMAIN specification["object"]
     /\ Len(specification["object"]["services"]) = 2
     /\ "name" \in DOMAIN specification["object"]["services"][2]
     /\ specification["object"]["services"][2]["name"] = <<>>
     /\ Len(config["services"]) = 2) =>
        LET ss == specification["object"]["services"]
            n1 == RoutesOf(ss[1])
        IN  /\ config["services"][1]["name"] /= config["services"][2]["name"]
            /\ IsDefaultName(config["services"][2]["name"])
            /\ \A i \in 1..2 :
                  config["services"][i]["name"] = Normalize(config["services"][i]["name"])
            /\ Len(config["routes"]) = n1 + RoutesOf(ss[2])
            /\ \A j \in 1..Len(config["routes"]) :
                  config["routes"][j]["service_name"] =
                     config["services"][IF j <= n1 THEN 1 ELSE 2]["name"]

(* The tokens of the dispatch table of _add_feature_plugins. *)
DispatchTokens ==
    {"key-auth", "jwt", "oauth2", "basic-auth", "rate-limiting", "response-transformer",
     "request-transformer", "http-log", "logging", "cors", "proxy-cache", "cache",
     "ip-restriction", "request-size-limiting", "request-termination"}

Dispatched(feature) == FeatureLower(feature) \in DispatchTokens

(* C19: a feature token that matches no row of the dispatch table raises   *)
(* no error and changes nothing: the transform yields the services,        *)
(* routes, plugins and consumers it yields for the feature list without    *)
(* that token.                                                             *)
C19_UnknownTokenIgnored ==
    [][(Transformed' /\ "object" \in DOMAIN specification)
          => /\ err' = "none"
             /\ \E rs \in TransformDraws(specification) :
                   LET g == GenerateKongConfig(config, specification,
                                               SelectSeq(features, Dispatched), rs)
                   IN  /\ config'["services"] = g.cfg["services"]
                       /\ config'["routes"] = g.cfg["routes"]
                       /\ config'["plugins"] = g.cfg["plugins"]
                       /\ config'["consumers"] = g.cfg["consumers"]
             /\ (\A k \in 1..Len(features) : ~Dispatched(features[k]))
                   /\ "services" \notin DOMAIN specification["object"]
                   => config' = config]_vars

(* C19 witness: the transform ran with the feature list [bogus] on a       *)
(* configuration that holds a service, a route and a plugin, and with      *)
(* [key-auth, bogus].                                                      *)
C19_Witness ==
    /\ Transformed /\ err = "none"
    /\ specification = [object |-> <<>>]
    /\ \/ /\ features = <<"bogus">>
          /\ Len(config["services"]) = 1 /\ Len(config["plugins"]) = 1
       \/ /\ features = <<"key-auth", "bogus">>
          /\ Len(config["plugins"]) = 1 /\ Len(config["consumers"]) = 1

(* C22: a service the transform adds from a specification service that    *)
(* has no url is stored with the URL http://{name}:8080, where name is     *)
(* the name stored for that service.  Violated: the transform builds the   *)
(* default URL from the name as the specification gives it, before         *)
(* add_service normalizes or synthesizes the name.                         *)
C22_DefaultUrlFromStoredName ==
    [][(/\ Transformed' /\ err' = "none"
        /\ "object" \in DOMAIN specification
        /\ "services" \in DOMAIN specification["object"])
          => LET ss == specification["object"]["services"]
                 base == Len(config["services"])
             IN  \A i \in 1..Len(ss) :
                    "url" \notin DOMAIN ss[i] =>
                       config'["services"][base + i]["url"]
                          = <<"http://">> \o config'["services"][base + i]["name"]
                               \o <<":8080">>]_vars

----------------------------------------------------------------------------
(* Properties of the transform followed by the deploy, checked under       *)
(* SpecTransformDeploy.                                                    *)

(* The tokens _add_feature_plugins has a branch for. *)
RecognizedFeatures ==
    {"key-auth", "jwt", "oauth2", "basic-auth", "rate-limiting", "response-transformer",
     "request-transformer", "http-log", "logging", "cors", "proxy-cache", "cache",
     "ip-restriction", "request-size-limiting", "request-termination"}

(* C28: for a feature list of recognized tokens, the deploy of the         *)
(* transform's configuration against a remote that accepts every request   *)
(* does not raise, and returns one result per service, route, plugin and   *)
(* consumer.  The transform gives the demo consumer of oauth2 (and of      *)
(* basic-auth) that auth type, for which add_consumer_auth raises.         *)
C28_DeployOfTransformCompletes ==
    (/\ op = "generate_kong_config"
     /\ \A k \in 1..Len(features) : FeatureLower(features[k]) \in RecognizedFeatures) =>
        /\ pc /= "raised"
        /\ pc = "done" =>
              \A list \in {"services", "routes", "plugins", "consumers"} :
                 Len(results[list]) = Len(config[list])

----------------------------------------------------------------------------
(* Properties of generate_from_interactive_input, checked under            *)
(* SpecInteractive.                                                        *)

(* The features collect_plugins turns into a plugin. *)
CollectedFeatures ==
    {"key-auth", "jwt", "oauth2", "basic-auth", "rate-limiting", "response-transformer",
     "request-transformer", "http-log", "cors"}

(* C27: after generate_from_interactive_input, with or without             *)
(* assume_kong_running, every service of the generated specification is in *)
(* the configuration exactly once and every selected feature contributed   *)
(* its plugin exactly once.  Stated of the configuration that             *)
(* kong-config.json was written from, the last step the call completes.    *)
(* With assume_kong_running the transform adds the services and plugins,   *)
(* and collect_services and collect_plugins add them again.                *)
C27_ServicesAndPluginsOnce ==
    (op = "generate_from_interactive_input" /\ written["exists"]) =>
        /\ ("object" \in DOMAIN specification
              /\ "services" \in DOMAIN specification["object"]) =>
               \A i \in 1..Len(specification["object"]["services"]) :
                  LET ss == specification["object"]["services"][i]
                  IN  ("name" \in DOMAIN ss /\ ss["name"] /= <<>>) =>
                         Cardinality({j \in 1..Len(config["services"]) :
                                        config["services"][j]["name"]
                                          = Normalize(ss["name"])}) = 1
        /\ \A k \in 1..Len(features) :
               FeatureLower(features[k]) \in CollectedFeatures =>
                  Cardinality({j \in 1..Len(config["plugins"]) :
                                 config["plugins"][j]["name"]
                                   = FeatureLower(features[k])}) = 1

----------------------------------------------------------------------------
(* Properties of main(), checked under SpecMain, and of deploy_to_kong,    *)
(* checked under SpecDeployToKong.                                         *)

(* C20: every error raised during a run of main() of main.py, the          *)
(* construction of its collaborators included, is caught: main() never     *)
(* ends by an exception that leaves it.  Violated: GroqAiModelClient() is  *)
(* called before the try and raises ValueError when no API key is          *)
(* configured.                                                             *)
C20_NoErrorEscapesMain == args["entry"] = "main.py" => mpc /= "escaped"

(* The service a route-creation request addresses: the url is              *)
(* /services/{service_name}/routes.                                        *)
AddressesService(c, service_name) ==
    c.url = <<"/services/">> \o service_name \o <<"/routes">>

(* C30: in a deploy_to_kong with a project name the configuration is       *)
(* reloaded and validated before the first request, so every request that  *)
(* creates a route addresses a service for which a service-creation        *)
(* request was sent earlier in the same deploy.                            *)
C30_RouteCallsFollowTheirService ==
    (op = "deploy_to_kong" /\ project_name /= <<>>) =>
        \A k \in 1..Len(calls) :
            calls[k].kind = "create_route" =>
                \E m \in 1..(k - 1) :
                    /\ calls[m].kind = "create_service"
                    /\ AddressesService(calls[k], calls[m].data.name)

(* C30 witness: a deploy with a project name has sent a route-creation     *)
(* request, addressed to a default service that validate() named.          *)
C30_Witness ==
    /\ op = "deploy_to_kong" /\ project_name /= <<>>
    /\ \E k \in 1..Len(calls) :
          /\ calls[k].kind = "create_route"
          /\ AddressesService(calls[k], DefaultName(RandLo))

====
